---- MODULE Spec2Model ----
(***************************************************************************)
(* Strike BTC profit tracker: the content script (src/src/content.js).     *)
(*                                                                         *)
(* Two specifications over one set of variables:                           *)
(*   SpecLedger  buildSummary replayed event by event over bounded event   *)
(*               lists (the pure cost-basis algorithm);                    *)
(*   Spec        the refresh cycle of insertProfitColumns with the page,   *)
(*               the user, the timers and the price services around it.    *)
(*                                                                         *)
(* JavaScript numbers are modelled as exact rationals [n, d] (d > 0, in    *)
(* lowest terms): rounding of IEEE doubles is not modelled.                *)
(***************************************************************************)
EXTENDS Integers, Sequences, FiniteSets, TLC

NULL == "null"

\* A missing completion time (timestamp: null); Dates are epoch milliseconds.
NoDate == -1
\* A value that is not a Date, or a Date whose getTime() is NaN.
InvalidDate == -2

(***************************************************************************)
(* Exact rational arithmetic                                               *)
(***************************************************************************)
Abs(x) == IF x < 0 THEN -x ELSE x

RECURSIVE GCD(_, _)
GCD(a, b) == IF b = 0 THEN a ELSE GCD(b, a % b)

Rat(n, d) ==
    LET g == GCD(Abs(n), Abs(d))
        s == IF d < 0 THEN -1 ELSE 1
    IN  [n |-> (s * n) \div g, d |-> (s * d) \div g]

R(i) == [n |-> i, d |-> 1]
RZero == R(0)
\* null, undefined or NaN where a number is expected: no finite value.
NoPrice == [n |-> 0, d |-> 0]
\* Number.isFinite(x) && x > 0
FinitePositive(x) == x.d # 0 /\ x.n > 0
RAdd(a, b) == Rat(a.n * b.d + b.n * a.d, a.d * b.d)
RSub(a, b) == Rat(a.n * b.d - b.n * a.d, a.d * b.d)
RMul(a, b) == Rat(a.n * b.n, a.d * b.d)
RDiv(a, b) == Rat(a.n * b.d, a.d * b.n)
RLt(a, b) == a.n * b.d < b.n * a.d
RLe(a, b) == a.n * b.d <= b.n * a.d
RPos(a) == a.n > 0
RMax(a, b) == IF RLt(a, b) THEN b ELSE a

(***************************************************************************)
(* Ledger events: {type, timestamp, amountBTC, entryPrice}                 *)
(* (content.js 458-463, 518-531).  timestamp is a Date in epoch            *)
(* milliseconds or null; amountBTC is a signed quantity in model units;    *)
(* entryPrice is a rational.                                               *)
(***************************************************************************)
Event(ty, ts, amt, price) ==
    [type |-> ty, timestamp |-> ts, amountBTC |-> amt, entryPrice |-> price]

\* a.timestamp?.getTime() ?? 0
TimeOf(e) == IF e.timestamp = NoDate THEN 0 ELSE e.timestamp

\* A comparator that breaks ties by ascending quantity.
CompareEventsAscending(a, b) ==
    IF TimeOf(a) = TimeOf(b)
    THEN a.amountBTC - b.amountBTC
    ELSE TimeOf(a) - TimeOf(b)

\* The comparator of allEvents.sort: negative when a sorts before b.
CompareEvents(a, b) ==
    IF TimeOf(a) = TimeOf(b)
    THEN b.amountBTC - a.amountBTC
    ELSE TimeOf(a) - TimeOf(b)

\* Array.prototype.filter with the predicate of buildSummary.
RECURSIVE FilterEvents(_)
FilterEvents(s) ==
    IF s = << >> THEN << >>
    ELSE IF Head(s).amountBTC # 0
         THEN <<Head(s)>> \o FilterEvents(Tail(s))
         ELSE FilterEvents(Tail(s))

\* Insert e into the sorted sequence s after every element that does not
\* sort after it: with SortEvents this is a stable sort, as Array.sort is.
RECURSIVE InsertEvent(_, _)
InsertEvent(e, s) ==
    IF s = << >> THEN <<e>>
    ELSE IF CompareEvents(e, Head(s)) < 0
         THEN <<e>> \o s
         ELSE <<Head(s)>> \o InsertEvent(e, Tail(s))

RECURSIVE SortEvents(_)
SortEvents(s) ==
    IF s = << >> THEN << >>
    ELSE InsertEvent(s[Len(s)], SortEvents(SubSeq(s, 1, Len(s) - 1)))

\* const allEvents = [...trade, ...receive, ...send].filter(...); sort(...)
AllEvents(tradeEvents, receiveEvents, sendEvents) ==
    SortEvents(FilterEvents(tradeEvents \o receiveEvents \o sendEvents))

\* ApplyEvent without the floor at 0 on the basis of an outflow.
ApplyEventNoFloor(book, e) ==
    LET amount == e.amountBTC
        amountAbs == Abs(amount)
    IN  IF amount > 0
        THEN [h |-> book.h + amount,
              b |-> RAdd(book.b, RMul(e.entryPrice, R(amount)))]
        ELSE IF amount < 0
        THEN IF book.h <= 0 \/ ~RPos(book.b)
             THEN [h |-> book.h - amountAbs,
                   b |-> RSub(book.b, RMul(e.entryPrice, R(amountAbs)))]
             ELSE [h |-> book.h - amountAbs,
                   b |-> RSub(book.b, RMul(book.b, Rat(amountAbs, book.h)))]
        ELSE book

\* ApplyEvent adding the unit price, not price x quantity, to the basis.
ApplyEventUnitPrice(book, e) ==
    LET amount == e.amountBTC
        amountAbs == Abs(amount)
    IN  IF amount > 0
        THEN [h |-> book.h + amount, b |-> RAdd(book.b, e.entryPrice)]
        ELSE IF amount < 0
        THEN IF book.h <= 0 \/ ~RPos(book.b)
             THEN [h |-> book.h - amountAbs,
                   b |-> RMax(RZero,
                              RSub(book.b, RMul(e.entryPrice, R(amountAbs))))]
             ELSE [h |-> book.h - amountAbs,
                   b |-> RMax(RZero,
                              RSub(book.b, RMul(book.b, Rat(amountAbs, book.h))))]
        ELSE book

\* ApplyEvent reducing the basis of every outflow by the outflow's own
\* valuation instead of the proportional share.
ApplyEventOwnPrice(book, e) ==
    LET amount == e.amountBTC
        amountAbs == Abs(amount)
    IN  IF amount > 0
        THEN [h |-> book.h + amount,
              b |-> RAdd(book.b, RMul(e.entryPrice, R(amount)))]
        ELSE IF amount < 0
        THEN [h |-> book.h - amountAbs,
              b |-> RMax(RZero, RSub(book.b, RMul(e.entryPrice, R(amountAbs))))]
        ELSE book

\* ApplyEvent taking the proportion of a smaller disposal against the
\* holdings after it instead of the holdings before it.
ApplyEventProportionAfter(book, e) ==
    LET amount == e.amountBTC
        amountAbs == Abs(amount)
    IN  IF amount > 0
        THEN [h |-> book.h + amount,
              b |-> RAdd(book.b, RMul(e.entryPrice, R(amount)))]
        ELSE IF amount < 0
        THEN IF book.h <= 0 \/ ~RPos(book.b)
             THEN [h |-> book.h - amountAbs,
                   b |-> RMax(RZero,
                              RSub(book.b, RMul(e.entryPrice, R(amountAbs))))]
             ELSE LET after == book.h - amountAbs
                      proportion == IF after > 0 THEN Rat(amountAbs, after)
                                    ELSE R(1)
                  IN  [h |-> after,
                       b |-> RMax(RZero, RSub(book.b, RMul(book.b, proportion)))]
        ELSE book

\* ApplyEvent whose outflow from an empty book leaves the basis alone.
ApplyEventKeepsBasis(book, e) ==
    LET amount == e.amountBTC
        amountAbs == Abs(amount)
    IN  IF amount > 0
        THEN [h |-> book.h + amount,
              b |-> RAdd(book.b, RMul(e.entryPrice, R(amount)))]
        ELSE IF amount < 0
        THEN IF book.h <= 0 \/ ~RPos(book.b)
             THEN [h |-> book.h - amountAbs, b |-> book.b]
             ELSE LET proportion == Rat(amountAbs, book.h)
                      reduction == RMul(book.b, proportion)
                  IN  [h |-> book.h - amountAbs,
                       b |-> RMax(RZero, RSub(book.b, reduction))]
        ELSE book

\* ApplyEvent with the holdings of an outflow floored at 0.
ApplyEventFloorsHoldings(book, e) ==
    LET amount == e.amountBTC
        amountAbs == Abs(amount)
        left == IF book.h - amountAbs < 0 THEN 0 ELSE book.h - amountAbs
    IN  IF amount > 0
        THEN [h |-> book.h + amount,
              b |-> RAdd(book.b, RMul(e.entryPrice, R(amount)))]
        ELSE IF amount < 0
        THEN IF book.h <= 0 \/ ~RPos(book.b)
             THEN [h |-> left,
                   b |-> RMax(RZero,
                              RSub(book.b, RMul(e.entryPrice, R(amountAbs))))]
             ELSE LET proportion == Rat(amountAbs, book.h)
                      reduction == RMul(book.b, proportion)
                  IN  [h |-> left,
                       b |-> RMax(RZero, RSub(book.b, reduction))]
        ELSE book

\* ApplyEvent whose inflow values the whole holdings at its own unit price.
ApplyEventRevalues(book, e) ==
    LET amount == e.amountBTC
        amountAbs == Abs(amount)
    IN  IF amount > 0
        THEN [h |-> book.h + amount,
              b |-> RMul(e.entryPrice, R(book.h + amount))]
        ELSE IF amount < 0
        THEN IF book.h <= 0 \/ ~RPos(book.b)
             THEN [h |-> book.h - amountAbs,
                   b |-> RMax(RZero,
                              RSub(book.b, RMul(e.entryPrice, R(amountAbs))))]
             ELSE LET proportion == Rat(amountAbs, book.h)
                      reduction == RMul(book.b, proportion)
                  IN  [h |-> book.h - amountAbs,
                       b |-> RMax(RZero, RSub(book.b, reduction))]
        ELSE book

\* One iteration of allEvents.forEach: the book [h, b] after event e.
ApplyEvent(book, e) ==
    LET amount == e.amountBTC
        amountAbs == Abs(amount)
    IN  IF amount > 0
        THEN [h |-> book.h + amount,
              b |-> RAdd(book.b, RMul(e.entryPrice, R(amount)))]
        ELSE IF amount < 0
        THEN IF book.h <= 0 \/ ~RPos(book.b)
             THEN [h |-> book.h - amountAbs,
                   b |-> RMax(RZero,
                              RSub(book.b, RMul(e.entryPrice, R(amountAbs))))]
             ELSE LET proportion == Rat(amountAbs, book.h)
                      reduction == RMul(book.b, proportion)
                  IN  [h |-> book.h - amountAbs,
                       b |-> RMax(RZero, RSub(book.b, reduction))]
        ELSE book

EmptyBook == [h |-> 0, b |-> RZero]

RECURSIVE Replay(_, _)
Replay(book, s) ==
    IF s = << >> THEN book ELSE Replay(ApplyEvent(book, Head(s)), Tail(s))

RECURSIVE SumPositive(_)
SumPositive(s) ==
    IF s = << >> THEN 0
    ELSE (IF Head(s).amountBTC > 0 THEN Head(s).amountBTC ELSE 0)
         + SumPositive(Tail(s))

RECURSIVE SumNegative(_)
SumNegative(s) ==
    IF s = << >> THEN 0
    ELSE (IF Head(s).amountBTC < 0 THEN -Head(s).amountBTC ELSE 0)
         + SumNegative(Tail(s))

\* A summary whose percent is taken over the current value.
SummarizePercentOfValue(currentPrice, book, tradeEvents, receiveEvents, sendEvents) ==
    LET currentValue == RMul(R(book.h), currentPrice)
        netProfit == RSub(currentValue, book.b)
    IN  [holdingsBTC |-> book.h,
         basisUSD |-> book.b,
         currentValue |-> currentValue,
         netProfit |-> netProfit,
         percent |-> IF currentValue.n # 0
                     THEN RMul(RDiv(netProfit, currentValue), R(100))
                     ELSE RZero,
         breakdown |-> [tradesBTC |-> SumPositive(tradeEvents),
                        receivedBTC |-> SumPositive(receiveEvents),
                        sentBTC |-> SumNegative(sendEvents)]]

\* Number(value).toFixed(2) of formatPercent and formatUSD, in hundredths
\* (round half away from zero).
ToFixed2(x) ==
    IF x.n >= 0 THEN (2 * 100 * x.n + x.d) \div (2 * x.d)
    ELSE -((2 * 100 * (-x.n) + x.d) \div (2 * x.d))

\* The summary object built from the final book.
Summarize(currentPrice, book, tradeEvents, receiveEvents, sendEvents) ==
    LET currentValue == RMul(R(book.h), currentPrice)
        netProfit == RSub(currentValue, book.b)
    IN  [holdingsBTC |-> book.h,
         basisUSD |-> book.b,
         currentValue |-> currentValue,
         netProfit |-> netProfit,
         percent |-> IF book.b.n # 0
                     THEN RMul(RDiv(netProfit, book.b), R(100))
                     ELSE RZero,
         breakdown |-> [tradesBTC |-> SumPositive(tradeEvents),
                        receivedBTC |-> SumPositive(receiveEvents),
                        sentBTC |-> SumNegative(sendEvents)]]

\* buildSummary as a function of its arguments.
BuildSummary(currentPrice, tradeEvents, receiveEvents, sendEvents) ==
    Summarize(currentPrice,
              Replay(EmptyBook, AllEvents(tradeEvents, receiveEvents, sendEvents)),
              tradeEvents, receiveEvents, sendEvents)

(***************************************************************************)
(* State                                                                   *)
(***************************************************************************)
VARIABLES
    \* one call of buildSummary, replayed step by step (SpecLedger)
    lPc,            \* "input" | "replay" | "done"
    lArgs,          \* the arguments: currentPrice and the three event lists
    allEvents,      \* the filtered, sorted event list
    lIdx,           \* number of events replayed so far
    holdingsBTC,    \* running holdings
    basisUSD,       \* running basis
    summary,        \* the returned summary, NULL before the call returns
    \* the page (external): tabs, tables and their rows
    page,           \* the rows of the three tables of this page session
    activeTab,      \* the tab with aria-selected="true"
    tableLoaded,    \* per tab: its panel holds a <table>
    \* injected DOM
    profitCells,    \* per Trading row: number of cells with data-profit-cell
    profitHeaders,  \* number of header cells with data-profit-header
    banner,         \* the elements with id strike-profit-banner (summaries)
    \* module state of content.js
    started,        \* start() has run (first refresh, click listener installed)
    isProgrammaticNavigation,
    processingPromise,      \* NULL or the cycle whose promise is in flight
    checkReceivingSending,
    receiveResult,  \* receiveResult.events
    sendResult,     \* sendResult.events
    historicalPriceCache,   \* minuteKey -> price or NoPrice
    timers,         \* pending setTimeout(insertProfitColumns, 350)
    cycles,         \* per cycle slot: the position and locals of its body
    \* observations
    histCalls,      \* minuteKey -> number of fetch calls issued for it
    lastTrigger,    \* what a call of insertProfitColumns in the last step returned,
                    \* how a promise that settled in the last step did, and
                    \* the tab the user clicked in the last step
    extScheduled,   \* refreshes scheduled by a click the extension issued
    \* one call of fetchHistoricalBTCPrice on its own (SpecHist)
    hPc,            \* "idle" | "await" | "returned"
    hDate,          \* the argument: epoch milliseconds, NoDate or InvalidDate
    hResp,          \* what the candles request of this call yielded
    hOut,           \* how the call ended: [threw, price]
    \* one call of ensureAllRowsLoaded on its own (SpecLoad)
    loader,         \* its position and locals: pc, i, stablePasses, lastCount, ...
    panelDom,       \* the panel it is given: table, row count, "load more" button
    \* the background script (SpecBackground)
    requests,       \* per message received: the listener's position and its answer
    \* the earlier content script (SpecEarly)
    earlyDom,       \* the active tab, the table with its header row and rows, the banners
    earlyRun        \* start() done, timers pending, attempts suspended at the price request

ledgerVars == <<lPc, lArgs, allEvents, lIdx, holdingsBTC, basisUSD, summary>>
pageVars == <<page, activeTab, tableLoaded>>
domVars == <<profitCells, profitHeaders, banner>>
cacheVars == <<historicalPriceCache, histCalls>>
transferVars == <<checkReceivingSending, receiveResult, sendResult>>
orchVars ==
    <<pageVars, domVars, cacheVars, transferVars, started,
      isProgrammaticNavigation, processingPromise, timers, cycles, lastTrigger,
      extScheduled>>

histVars == <<hPc, hDate, hResp, hOut>>

loadVars == <<loader, panelDom>>

bgVars == <<requests>>

earlyVars == <<earlyDom, earlyRun>>

vars == <<ledgerVars, orchVars, histVars, loadVars, bgVars, earlyVars>>


(***************************************************************************)
(* The page and the price services (external)                              *)
(***************************************************************************)
Tabs == {"Trading", "Receiving", "Sending"}
Slots == {"c1", "c2"}

MaxTimers == 1

\* Rows as the cell parsers read them: Trading [sold, bought, completedAt],
\* transfers [amount, fee, completedAt].
TradeRow(sold, bought, at) == [sold |-> sold, bought |-> bought, completedAt |-> at]
TransferRow(amount, fee, at) == [amount |-> amount, fee |-> fee, completedAt |-> at]

TradingTables ==
    { <<TradeRow(20000, 2, 60000)>>,
      <<TradeRow(0, 1, 90000), TradeRow(30000, 1, NoDate)>> }
ReceivingTables == { << >>, <<TransferRow(1, 0, 60000)>> }
SendingTables == { <<TransferRow(1, 1, 120000)>> }

Pages ==
    {[Trading |-> t, Receiving |-> r, Sending |-> s] :
        t \in TradingTables, r \in ReceivingTables, s \in SendingTables}

\* What browser.runtime.sendMessage resolves with: nothing, {error: true},
\* {price: null} or {price}.
PriceResponses ==
    { [kind |-> "none", price |-> NoPrice],
      [kind |-> "error", price |-> NoPrice],
      [kind |-> "price", price |-> NoPrice],
      [kind |-> "price", price |-> R(50000)] }

\* A candle [time, open, close, ...]; wellFormed: an array of length >= 3.
Candle(t, open, close) ==
    [wellFormed |-> TRUE, time |-> t, open |-> open, close |-> close]

\* An element of the response that is not an array of length >= 3.
MalformedCandle ==
    [wellFormed |-> FALSE, time |-> 0, open |-> NoPrice, close |-> NoPrice]

\* What fetch(url) and response.json() yield.  kind: "transport" (fetch
\* rejects), "status" (response.ok is false), "parse" (json() rejects),
\* "nonarray" (the body is not an array), "array" (data is the body).
CandlesResponse(kind, data) == [kind |-> kind, data |-> data]

HistResponses ==
    { CandlesResponse("status", << >>),
      CandlesResponse("array", <<Candle(60000, R(19000), R(20000))>>) }

(***************************************************************************)
(* fetchHistoricalBTCPrice                                                 *)
(***************************************************************************)
MinuteMs == 60000

MinuteKey(ts) == ts \div MinuteMs

\* A test that lets every argument through.
ValidDateAny(ts) == TRUE

\* date instanceof Date && !Number.isNaN(date.getTime())
ValidDate(ts) == ts \notin {NoDate, InvalidDate}

\* The forEach with <= for <: the last closest candle wins a tie.
RECURSIVE ClosestCandleLastWins(_, _, _, _, _)
ClosestCandleLastWins(data, targetMs, i, closest, closestDiff) ==
    IF i > Len(data) THEN closest
    ELSE LET diff == Abs(data[i].time - targetMs)
         IN  IF data[i].wellFormed /\ (closest = 0 \/ diff <= closestDiff)
             THEN ClosestCandleLastWins(data, targetMs, i + 1, i, diff)
             ELSE ClosestCandleLastWins(data, targetMs, i + 1, closest, closestDiff)

\* The forEach of lines 114-122: index of the closest well-formed candle
\* (0: none), the first one winning a tie.
RECURSIVE ClosestCandle(_, _, _, _, _)
ClosestCandle(data, targetMs, i, closest, closestDiff) ==
    IF i > Len(data) THEN closest
    ELSE LET diff == Abs(data[i].time - targetMs)
         IN  IF data[i].wellFormed /\ (closest = 0 \/ diff < closestDiff)
             THEN ClosestCandle(data, targetMs, i + 1, i, diff)
             ELSE ClosestCandle(data, targetMs, i + 1, closest, closestDiff)

\* The try block (lines 100-127): threw when fetch rejects, the status is
\* not OK or json() rejects; otherwise the price to return, NoPrice for null.
TryFetch(resp, targetMs) ==
    IF resp.kind \in {"transport", "status", "parse"}
    THEN [threw |-> TRUE, price |-> NoPrice]
    ELSE IF resp.kind = "nonarray" \/ resp.data = << >>
    THEN [threw |-> FALSE, price |-> NoPrice]
    ELSE LET k == ClosestCandle(resp.data, targetMs, 1, 0, 0)
         IN  [threw |-> FALSE,
              price |-> IF k = 0 THEN NoPrice
                        ELSE IF resp.data[k].close # NoPrice THEN resp.data[k].close
                        ELSE resp.data[k].open]

\* A function without the catch block: the error leaves the function.
CatchNothing(t) == t

\* The catch block (lines 128-132): an error becomes the result null.
CatchFailure(t) == [threw |-> FALSE, price |-> IF t.threw THEN NoPrice ELSE t.price]

\* The value returned and cached for a response (lines 100-132).
PriceOfResponse(resp, targetMs) == CatchFailure(TryFetch(resp, targetMs)).price

\* historicalPriceCache.has(minuteKey)
CacheHas(key) == key \in DOMAIN historicalPriceCache

\* A cache that keeps prices only: a failed lookup is not recorded.
CacheSetPricesOnly(cache, key, price) ==
    IF price = NoPrice THEN cache
    ELSE [k \in DOMAIN cache \cup {key} |-> IF k = key THEN price ELSE cache[k]]

\* historicalPriceCache.set(minuteKey, price)
CacheSet(cache, key, price) ==
    [k \in DOMAIN cache \cup {key} |-> IF k = key THEN price ELSE cache[k]]

CallsOf(key) == IF key \in DOMAIN histCalls THEN histCalls[key] ELSE 0

\* One more fetch(url) issued for the bucket.
CountCall(calls, key) ==
    [k \in DOMAIN calls \cup {key} |->
        IF k = key THEN (IF k \in DOMAIN calls THEN calls[k] ELSE 0) + 1
        ELSE calls[k]]

(***************************************************************************)
(* Extractors: one row of processTradingTable / processTransferTable       *)
(***************************************************************************)
Rows(tab) == page[tab]

\* A net amount that leaves the fee of a send out.
NetAmountNoFee(tab, row) == Abs(row.amount)

\* if (!boughtBTC) continue;   if (!netAmount) continue;
NetAmount(tab, row) ==
    IF tab = "Sending" THEN Abs(row.amount) + Abs(row.fee) ELSE Abs(row.amount)

\* An extractor that also drops a trade row with neither ratio nor date.
RowSkippedUnpriced(tab, row) ==
    IF tab = "Trading"
    THEN \/ row.bought = 0
         \/ ~FinitePositive(Rat(row.sold, row.bought)) /\ row.completedAt = NoDate
    ELSE NetAmount(tab, row) = 0

RowSkipped(tab, row) ==
    IF tab = "Trading" THEN row.bought = 0 ELSE NetAmount(tab, row) = 0

\* soldUSD / boughtBTC when finite and > 0 (lines 423-428), else NoPrice.
RatioPrice(row) ==
    IF row.bought # 0 /\ FinitePositive(Rat(row.sold, row.bought))
    THEN Rat(row.sold, row.bought)
    ELSE NoPrice

\* A trade row that looks its price up whenever it has a completion time.
RowLooksUpAlways(tab, row) ==
    IF tab = "Trading" THEN row.completedAt # NoDate ELSE TRUE

\* The row calls fetchHistoricalBTCPrice: always for a transfer, for a trade
\* only without a ratio price and with a completion time.
RowLooksUp(tab, row) ==
    IF tab = "Trading"
    THEN RatioPrice(row) = NoPrice /\ row.completedAt # NoDate
    ELSE TRUE

\* A transfer row without a historical price is priced 0, as a trade is.
RowEventZeroFallback(tab, row, historicalPrice, currentPrice) ==
    LET price == IF tab = "Trading" /\ RatioPrice(row) # NoPrice THEN RatioPrice(row)
                 ELSE IF FinitePositive(historicalPrice) THEN historicalPrice
                 ELSE RZero
    IN  IF tab = "Trading" THEN Event("trade", row.completedAt, row.bought, price)
        ELSE IF tab = "Receiving"
        THEN Event("receive", row.completedAt, NetAmount(tab, row), price)
        ELSE Event("send", row.completedAt, -NetAmount(tab, row), price)

\* The event pushed for a row, historicalPrice being what the lookup
\* returned (NoPrice: null, or no lookup made).
RowEvent(tab, row, historicalPrice, currentPrice) ==
    IF tab = "Trading"
    THEN LET entryPrice ==
                 IF RatioPrice(row) # NoPrice THEN RatioPrice(row)
                 ELSE IF FinitePositive(historicalPrice) THEN historicalPrice
                 ELSE NoPrice
         IN  Event("trade", row.completedAt, row.bought,
                   IF entryPrice = NoPrice THEN RZero ELSE entryPrice)
    ELSE LET priceForBasis ==
                 IF FinitePositive(historicalPrice) THEN historicalPrice
                 ELSE IF currentPrice = NoPrice THEN RZero ELSE currentPrice
         IN  IF tab = "Receiving"
             THEN Event("receive", row.completedAt, NetAmount(tab, row), priceForBasis)
             ELSE Event("send", row.completedAt, -NetAmount(tab, row), priceForBasis)

\* An appendStyledCells that leaves the cells of an earlier run in the row.
AppendStyledCellsNoClear(cells, i, nValues) == [cells EXCEPT ![i] = @ + nValues]

\* appendStyledCells: clearProfitCells, then one cell per value.
AppendStyledCells(cells, i, nValues) == [cells EXCEPT ![i] = 0 + nValues]

\* appendStyledHeaderCells: clearProfitHeaders, then one cell per label.
AppendStyledHeaderCells(headers, nLabels) == 0 + nLabels

\* insertTotalProfitBanner(table, summary) with a table and a summary:
\* the element with the banner id is removed, a new one is inserted.
InsertTotalProfitBanner(banners, s) ==
    (IF banners = << >> THEN << >> ELSE Tail(banners)) \o <<s>>


(***************************************************************************)
(* Spec: the refresh cycle (insertProfitColumns) and its surroundings      *)
(***************************************************************************)
NoLedgerArgs ==
    [currentPrice |-> RZero, tradeEvents |-> << >>, receiveEvents |-> << >>,
     sendEvents |-> << >>]

LedgerIdle ==
    /\ lPc = "done"
    /\ lArgs = NoLedgerArgs
    /\ allEvents = << >>
    /\ lIdx = 0
    /\ holdingsBTC = 0
    /\ basisUSD = RZero
    /\ summary = NULL

NoResponse == CandlesResponse("none", << >>)
NoOutcome == [threw |-> FALSE, price |-> NoPrice]

IdleCycle ==
    [pc |-> "free", target |-> "none", originalTab |-> "none",
     currentPrice |-> NoPrice, idx |-> 0, events |-> << >>,
     outcome |-> "none", did |-> {}]

\* No promise settled in the last step.
NoSettlement == [state |-> "none", after |-> "none"]

NoTrigger ==
    [ret |-> "none", busy |-> NULL, tab |-> "none", settled |-> NoSettlement,
     click |-> "none"]

\* ensureAllRowsLoaded not called yet: let stablePasses = 0, lastCount = -1.
LoaderIdle ==
    [pc |-> "idle", i |-> 0, stablePasses |-> 0, lastCount |-> -1, before |-> 0,
     passes |-> 0, clicked |-> FALSE, exit |-> "none"]

\* A panel that is not in the document.
EmptyPanel == [present |-> FALSE, table |-> FALSE, rows |-> 0, loadMore |-> "absent"]

MaxRequests == 2

\* A message the background script has not received yet.
IdleRequest ==
    [pc |-> "none", type |-> "none", reply |-> [kind |-> "none", price |-> NoPrice],
     answers |-> 0, escaped |-> FALSE, seen |-> [threw |-> FALSE, price |-> NoPrice]]

NoRequests == [r \in 1..MaxRequests |-> IdleRequest]

\* A header row the earlier script has not touched.
FreshHeaderRow == [profitColumnsAdded |-> FALSE, added |-> 0]

\* A row the page has just rendered: wide when it has at least five cells.
FreshRow(wide) == [wide |-> wide, profitInjected |-> FALSE, added |-> 0]

\* No table in the document.
NoTable == [present |-> FALSE, headerRow |-> FreshHeaderRow, rows |-> << >>]

EarlyDomIdle == [tab |-> "Trading", table |-> NoTable, banners |-> 0]

EarlyRunIdle ==
    [started |-> FALSE, timers |-> 0, pending |-> 0, clicks |-> 0, peak |-> 0,
     rendered |-> 0]

OrchIdle(pg) ==
    /\ page = pg
    /\ activeTab = "Trading"
    /\ tableLoaded = [t \in Tabs |-> FALSE]
    /\ profitCells = [i \in 1..Len(page.Trading) |-> 0]
    /\ profitHeaders = 0
    /\ banner = << >>
    /\ started = FALSE
    /\ isProgrammaticNavigation = FALSE
    /\ processingPromise = NULL
    /\ checkReceivingSending = TRUE
    /\ receiveResult = << >>
    /\ sendResult = << >>
    /\ historicalPriceCache = << >>
    /\ timers = 0
    /\ cycles = [c \in Slots |-> IdleCycle]
    /\ histCalls = << >>
    /\ lastTrigger = NoTrigger
    /\ extScheduled = FALSE
    /\ hPc = "idle"
    /\ hDate = NoDate
    /\ hResp = NoResponse
    /\ hOut = NoOutcome
    /\ loader = LoaderIdle
    /\ panelDom = EmptyPanel
    /\ requests = NoRequests
    /\ earlyDom = EarlyDomIdle
    /\ earlyRun = EarlyRunIdle

Init ==
    /\ LedgerIdle
    /\ \E pg \in Pages : OrchIdle(pg)

\* isTradingTabActive()
IsTradingTabActive == activeTab = "Trading"

\* The guard of a version that never sees a refresh in flight.
BusyNever == FALSE

\* if (processingPromise) ...: a refresh is already running.
Busy == processingPromise # NULL

Running(c) == cycles[c].pc # "free"

FreeSlot == IF ~Running("c1") THEN "c1" ELSE "c2"

\* A chain without the .catch: the rejection of a body that threw passes
\* through .finally and reaches the caller.
PromiseSettlesUncaught(outcome) ==
    [state |-> IF outcome = "error" THEN "rejected" ELSE "fulfilled",
     after |-> outcome]

\* How the promise returned by insertProfitColumns settles when the
\* .finally callback ends (lines 705-780): the body returns on a price
\* failure and on a missing Trading table, and .catch (lines 759-760) turns
\* the rejection of a body that threw into a fulfilment.
PromiseSettles(outcome) == [state |-> "fulfilled", after |-> outcome]

\* A click listener that schedules nothing.
TradingClickNeverSchedules(tab, flag) == FALSE

\* A click listener that does not look at the suppression flag.
TradingClickIgnoresFlag(tab, flag) == tab = "Trading" /\ started

\* The click listener of the Trading tab (lines 790-794): TRUE when the
\* click schedules setTimeout(insertProfitColumns, 350).
TradingClickSchedules(tab, flag) == tab = "Trading" /\ started /\ ~flag

\* insertProfitColumns testing the in-flight promise before the active tab.
InsertProfitColumnsBusyFirst ==
    IF Busy
    THEN /\ lastTrigger' = [ret |-> processingPromise, busy |-> processingPromise,
                            tab |-> activeTab, settled |-> NoSettlement,
                            click |-> "none"]
         /\ UNCHANGED <<processingPromise, cycles>>
    ELSE IF ~IsTradingTabActive
    THEN /\ lastTrigger' = [ret |-> "undefined", busy |-> processingPromise,
                            tab |-> activeTab, settled |-> NoSettlement,
                            click |-> "none"]
         /\ UNCHANGED <<processingPromise, cycles>>
    ELSE /\ ~Running(FreeSlot)
         /\ cycles' = [cycles EXCEPT ![FreeSlot] =
                          [IdleCycle EXCEPT !.pc = "await_price",
                                            !.originalTab = activeTab]]
         /\ processingPromise' = FreeSlot
         /\ lastTrigger' = [ret |-> FreeSlot, busy |-> processingPromise,
                            tab |-> activeTab, settled |-> NoSettlement,
                            click |-> "none"]

\* insertProfitColumns without the test of the promise in flight: every
\* trigger on the Trading tab starts a cycle.
InsertProfitColumnsNoGuard ==
    IF ~IsTradingTabActive
    THEN /\ lastTrigger' = [ret |-> "undefined", busy |-> processingPromise,
                            tab |-> activeTab, settled |-> NoSettlement,
                            click |-> "none"]
         /\ UNCHANGED <<processingPromise, cycles>>
    ELSE /\ ~Running(FreeSlot)
         /\ cycles' = [cycles EXCEPT ![FreeSlot] =
                          [IdleCycle EXCEPT !.pc = "await_price",
                                            !.originalTab = activeTab]]
         /\ processingPromise' = FreeSlot
         /\ lastTrigger' = [ret |-> FreeSlot, busy |-> processingPromise,
                            tab |-> activeTab, settled |-> NoSettlement,
                            click |-> "none"]

\* insertProfitColumns without the test of the active tab.
InsertProfitColumnsAnyTab ==
    IF Busy
    THEN /\ lastTrigger' = [ret |-> processingPromise, busy |-> processingPromise,
                            tab |-> activeTab, settled |-> NoSettlement,
                            click |-> "none"]
         /\ UNCHANGED <<processingPromise, cycles>>
    ELSE /\ ~Running(FreeSlot)
         /\ cycles' = [cycles EXCEPT ![FreeSlot] =
                          [IdleCycle EXCEPT !.pc = "await_price",
                                            !.originalTab = activeTab]]
         /\ processingPromise' = FreeSlot
         /\ lastTrigger' = [ret |-> FreeSlot, busy |-> processingPromise,
                            tab |-> activeTab, settled |-> NoSettlement,
                            click |-> "none"]

\* insertProfitColumns up to its first suspension (lines 688-711, 782).
InsertProfitColumns ==
    IF ~IsTradingTabActive
    THEN /\ lastTrigger' = [ret |-> "undefined", busy |-> processingPromise,
                            tab |-> activeTab, settled |-> NoSettlement,
                            click |-> "none"]
         /\ UNCHANGED <<processingPromise, cycles>>
    ELSE IF Busy
    THEN /\ lastTrigger' = [ret |-> processingPromise, busy |-> processingPromise,
                            tab |-> activeTab, settled |-> NoSettlement,
                            click |-> "none"]
         /\ UNCHANGED <<processingPromise, cycles>>
    ELSE /\ ~Running(FreeSlot)
         /\ cycles' = [cycles EXCEPT ![FreeSlot] =
                          [IdleCycle EXCEPT !.pc = "await_price",
                                            !.originalTab = activeTab]]
         /\ processingPromise' = FreeSlot
         /\ lastTrigger' = [ret |-> FreeSlot, busy |-> processingPromise,
                            tab |-> activeTab, settled |-> NoSettlement,
                            click |-> "none"]

\* start(): the first refresh, then the click listener (lines 798-802).
Start ==
    /\ ~started
    /\ started' = TRUE
    /\ InsertProfitColumns
    /\ UNCHANGED <<loadVars, bgVars, earlyVars, histVars, ledgerVars, pageVars, domVars, cacheVars, transferVars,
                   isProgrammaticNavigation, timers, extScheduled>>

\* A timer set by the click listener fires.
TimerFire ==
    /\ timers > 0
    /\ timers' = timers - 1
    /\ InsertProfitColumns
    /\ UNCHANGED <<loadVars, bgVars, earlyVars, histVars, ledgerVars, pageVars, domVars, cacheVars, transferVars, started,
                   isProgrammaticNavigation, extScheduled>>

\* The user clicks a tab: the page selects it and the click listener runs.
UserClick(t) ==
    /\ TradingClickSchedules(t, isProgrammaticNavigation) => timers < MaxTimers
    /\ activeTab' = t
    /\ timers' = IF TradingClickSchedules(t, isProgrammaticNavigation)
                 THEN timers + 1 ELSE timers
    /\ UNCHANGED <<loadVars, bgVars, earlyVars, histVars, ledgerVars, page, tableLoaded, domVars, cacheVars, transferVars,
                   started, isProgrammaticNavigation, processingPromise, cycles, extScheduled>>
    /\ lastTrigger' = [NoTrigger EXCEPT !.click = t]

\* The page renders the table of the selected tab; a rendered table stays.
PageLoadsTable(t) ==
    /\ activeTab = t
    /\ ~tableLoaded[t]
    /\ tableLoaded' = [tableLoaded EXCEPT ![t] = TRUE]
    /\ UNCHANGED <<loadVars, bgVars, earlyVars, histVars, ledgerVars, page, activeTab, domVars, cacheVars, transferVars,
                   started, isProgrammaticNavigation, processingPromise, timers,
                   cycles, extScheduled>>
    /\ lastTrigger' = NoTrigger

\* tab.click() issued by the extension, the flag having been set before:
\* the page selects the tab (or fails to), the click listener runs.
ExtensionClick(t, flips) ==
    /\ isProgrammaticNavigation' = TRUE
    /\ activeTab' = IF flips THEN t ELSE activeTab
    /\ LET schedules == TradingClickSchedules(t, TRUE)
       IN  /\ timers' = IF schedules /\ timers < MaxTimers THEN timers + 1 ELSE timers
           /\ extScheduled' = (extScheduled \/ schedules)

\* A body that gives up as soon as any table is unavailable.
TableUnavailableAborts(c) ==
    /\ cycles' = [cycles EXCEPT ![c].pc = "finally", ![c].outcome = "no_table"]
    /\ UNCHANGED transferVars

\* The body's next step once the table of its target tab is settled as
\* unavailable (context null or table null).
TableUnavailable(c) ==
    LET cy == cycles[c]
    IN  IF cy.target = "Receiving"
        THEN /\ receiveResult' = << >>
             /\ cycles' = [cycles EXCEPT ![c].target = "Sending", ![c].pc = "etr"]
             /\ UNCHANGED <<checkReceivingSending, sendResult>>
        ELSE IF cy.target = "Sending"
        THEN /\ sendResult' = << >>
             /\ checkReceivingSending' = FALSE
             /\ cycles' = [cycles EXCEPT ![c].target = "Trading", ![c].pc = "etr"]
             /\ UNCHANGED receiveResult
        ELSE /\ cycles' = [cycles EXCEPT ![c].pc = "finally",
                                         ![c].outcome = "no_table"]
             /\ UNCHANGED transferVars

\* A price failure that leaves the cycle at once, with no final step.
PriceResponseSkipsFinal(c, resp) ==
    /\ cycles[c].pc = "await_price"
    /\ IF resp.kind # "price" \/ resp.price = NoPrice
       THEN cycles' = [cycles EXCEPT ![c] = IdleCycle]
       ELSE cycles' = [cycles EXCEPT
                          ![c].currentPrice = resp.price,
                          ![c].pc = "etr",
                          ![c].target = IF checkReceivingSending
                                        THEN "Receiving" ELSE "Trading"]
    /\ UNCHANGED <<loadVars, bgVars, earlyVars, histVars, ledgerVars, pageVars, domVars, cacheVars, transferVars, started,
                   isProgrammaticNavigation, processingPromise, timers,
                   extScheduled>>
    /\ lastTrigger' = NoTrigger

\* A price failure that is logged but does not return: the cycle goes on
\* without a price.
PriceResponseNoReturn(c, resp) ==
    /\ cycles[c].pc = "await_price"
    /\ cycles' = [cycles EXCEPT
                     ![c].currentPrice = resp.price,
                     ![c].outcome = IF resp.kind # "price" \/ resp.price = NoPrice
                                    THEN "price_failed" ELSE @,
                     ![c].pc = "etr",
                     ![c].target = IF checkReceivingSending
                                   THEN "Receiving" ELSE "Trading"]
    /\ UNCHANGED <<loadVars, bgVars, earlyVars, histVars, ledgerVars, pageVars, domVars, cacheVars, transferVars, started,
                   isProgrammaticNavigation, processingPromise, timers,
                   extScheduled>>
    /\ lastTrigger' = NoTrigger

\* A price failure that also gives up the transfers for the session.
PriceResponseFailureClearsFlag(c, resp) ==
    /\ cycles[c].pc = "await_price"
    /\ IF resp.kind # "price" \/ resp.price = NoPrice
       THEN /\ cycles' = [cycles EXCEPT ![c].pc = "finally",
                                        ![c].outcome = "price_failed"]
            /\ checkReceivingSending' = FALSE
       ELSE /\ cycles' = [cycles EXCEPT
                             ![c].currentPrice = resp.price,
                             ![c].pc = "etr",
                             ![c].target = IF checkReceivingSending
                                           THEN "Receiving" ELSE "Trading"]
            /\ UNCHANGED checkReceivingSending
    /\ UNCHANGED <<loadVars, bgVars, earlyVars, histVars, ledgerVars, pageVars, domVars, cacheVars, receiveResult,
                   sendResult, started, isProgrammaticNavigation, processingPromise,
                   timers, extScheduled>>
    /\ lastTrigger' = NoTrigger

\* A body that gathers Receiving and Sending in every cycle.
PriceResponseAlwaysGathers(c, resp) ==
    /\ cycles[c].pc = "await_price"
    /\ IF resp.kind # "price" \/ resp.price = NoPrice
       THEN cycles' = [cycles EXCEPT ![c].pc = "finally",
                                     ![c].outcome = "price_failed"]
       ELSE cycles' = [cycles EXCEPT
                          ![c].currentPrice = resp.price,
                          ![c].pc = "etr",
                          ![c].target = "Receiving"]
    /\ UNCHANGED <<loadVars, bgVars, earlyVars, histVars, ledgerVars, pageVars, domVars, cacheVars, transferVars, started,
                   isProgrammaticNavigation, processingPromise, timers,
                   extScheduled>>
    /\ lastTrigger' = NoTrigger

\* The response to GET_BTC_PRICE arrives (lines 73-80, 709-717).
PriceResponse(c, resp) ==
    /\ cycles[c].pc = "await_price"
    /\ IF resp.kind # "price" \/ resp.price = NoPrice
       THEN cycles' = [cycles EXCEPT ![c].pc = "finally",
                                     ![c].outcome = "price_failed"]
       ELSE cycles' = [cycles EXCEPT
                          ![c].currentPrice = resp.price,
                          ![c].pc = "etr",
                          ![c].target = IF checkReceivingSending
                                        THEN "Receiving" ELSE "Trading"]
    /\ UNCHANGED <<loadVars, bgVars, earlyVars, histVars, ledgerVars, pageVars, domVars, cacheVars, transferVars, started,
                   isProgrammaticNavigation, processingPromise, timers,
                   extScheduled>>
    /\ lastTrigger' = NoTrigger

\* An ensureTabTableReady that clicks every tab that is not selected.
EnsureTabBeginAlwaysClicks(c) ==
    LET cy == cycles[c]
        wasActive == activeTab = cy.target
    IN  /\ cy.pc = "etr"
        /\ IF ~wasActive
           THEN /\ \E flips \in BOOLEAN : ExtensionClick(cy.target, flips)
                /\ cycles' = [cycles EXCEPT ![c].pc = "wait_select",
                                 ![c].did = @ \cup {"activate"}]
           ELSE /\ cycles' = [cycles EXCEPT ![c].pc = "wait_table"]
                /\ UNCHANGED <<activeTab, isProgrammaticNavigation, timers,
                               extScheduled>>
        /\ UNCHANGED <<loadVars, bgVars, earlyVars, histVars, ledgerVars, page, tableLoaded, domVars, cacheVars,
                       transferVars, started, processingPromise>>
    /\ lastTrigger' = NoTrigger

\* ensureTabTableReady up to its first wait (lines 334-371).
EnsureTabBegin(c) ==
    LET cy == cycles[c]
        table == tableLoaded[cy.target]
        hasRows == table /\ Rows(cy.target) # << >>
        wasActive == activeTab = cy.target
    IN  /\ cy.pc = "etr"
        /\ IF ~table \/ ~hasRows
           THEN IF ~wasActive
                THEN /\ \E flips \in BOOLEAN : ExtensionClick(cy.target, flips)
                     /\ cycles' = [cycles EXCEPT ![c].pc = "wait_select",
                                      ![c].did = @ \cup {"activate"}]
                ELSE /\ cycles' = [cycles EXCEPT ![c].pc = "wait_table"]
                     /\ UNCHANGED <<activeTab, isProgrammaticNavigation, timers,
                                    extScheduled>>
           ELSE /\ cycles' = [cycles EXCEPT ![c].pc = "wait_table"]
                /\ UNCHANGED <<activeTab, isProgrammaticNavigation, timers,
                               extScheduled>>
        /\ UNCHANGED <<loadVars, bgVars, earlyVars, histVars, ledgerVars, page, tableLoaded, domVars, cacheVars,
                       transferVars, started, processingPromise>>
    /\ lastTrigger' = NoTrigger

\* A wait that clears the flag only when the selection did flip.
WaitSelectEndKeepsFlagOnTimeout(c) ==
    /\ cycles[c].pc = "wait_select"
    /\ isProgrammaticNavigation' = (activeTab # cycles[c].target)
    /\ cycles' = [cycles EXCEPT ![c].pc = "wait_table"]
    /\ UNCHANGED <<loadVars, bgVars, earlyVars, histVars, ledgerVars, pageVars, domVars, cacheVars, transferVars, started,
                   processingPromise, timers, extScheduled>>
    /\ lastTrigger' = NoTrigger

\* The wait for the selection to flip ends, by the flip or after 7 s
\* (lines 364-368).
WaitSelectEnd(c) ==
    /\ cycles[c].pc = "wait_select"
    /\ isProgrammaticNavigation' = FALSE
    /\ cycles' = [cycles EXCEPT ![c].pc = "wait_table"]
    /\ UNCHANGED <<loadVars, bgVars, earlyVars, histVars, ledgerVars, pageVars, domVars, cacheVars, transferVars, started,
                   processingPromise, timers, extScheduled>>
    /\ lastTrigger' = NoTrigger

\* The waits for the table and its first row (10 s each, lines 373-388)
\* and ensureAllRowsLoaded (line 391) are over and the table is looked up
\* again (lines 392-398): extraction starts with the first row, or the
\* table is reported missing.
WaitTableEnd(c) ==
    /\ cycles[c].pc = "wait_table"
    /\ IF tableLoaded[cycles[c].target]
       THEN /\ cycles' = [cycles EXCEPT ![c].pc = "rows", ![c].idx = 1,
                             ![c].events = << >>,
                             ![c].did = @ \cup {"extract"}]
            /\ UNCHANGED transferVars
       ELSE TableUnavailable(c)
    /\ UNCHANGED <<loadVars, bgVars, earlyVars, histVars, ledgerVars, pageVars, domVars, cacheVars, started,
                   isProgrammaticNavigation, processingPromise, timers,
                   extScheduled>>
    /\ lastTrigger' = NoTrigger

\* The rest of a row once its historical price is known (lines 437-463,
\* 508-532): the cells of a Trading row, the event, the next row.
CompleteRow(c, historicalPrice) ==
    LET cy == cycles[c]
        row == Rows(cy.target)[cy.idx]
        e == RowEvent(cy.target, row, historicalPrice, cy.currentPrice)
    IN  /\ cycles' = [cycles EXCEPT
                         ![c].pc = "rows",
                         ![c].idx = @ + 1,
                         ![c].events = Append(@, e),
                         ![c].did = IF cy.target = "Trading"
                                    THEN @ \cup {"cells"} ELSE @]
        /\ profitCells' = IF cy.target = "Trading"
                          THEN AppendStyledCells(profitCells, cy.idx, 2)
                          ELSE profitCells

\* One row of the extraction loop, up to the fetch of a historical price
\* when one is needed and not cached (lines 413-435, 491-507, 84-102).
RowStep(c) ==
    LET cy == cycles[c]
        row == Rows(cy.target)[cy.idx]
        key == MinuteKey(row.completedAt)
    IN  /\ cy.pc = "rows"
        /\ cy.idx <= Len(Rows(cy.target))
        /\ IF RowSkipped(cy.target, row)
           THEN /\ cycles' = [cycles EXCEPT ![c].idx = @ + 1]
                /\ UNCHANGED <<profitCells, cacheVars>>
           ELSE IF ~RowLooksUp(cy.target, row) \/ ~ValidDate(row.completedAt)
           THEN /\ CompleteRow(c, NoPrice)
                /\ UNCHANGED cacheVars
           ELSE IF CacheHas(key)
           THEN /\ CompleteRow(c, historicalPriceCache[key])
                /\ UNCHANGED cacheVars
           ELSE /\ histCalls' = CountCall(histCalls, key)
                /\ cycles' = [cycles EXCEPT ![c].pc = "await_hist"]
                /\ UNCHANGED <<profitCells, historicalPriceCache>>
        /\ UNCHANGED <<loadVars, bgVars, earlyVars, histVars, ledgerVars, pageVars, profitHeaders, banner, transferVars,
                       started, isProgrammaticNavigation, processingPromise, timers, extScheduled>>
    /\ lastTrigger' = NoTrigger

\* fetch(url) settles: the price is cached and returned (lines 102-132).
HistResponse(c, resp) ==
    LET cy == cycles[c]
        row == Rows(cy.target)[cy.idx]
        price == PriceOfResponse(resp, row.completedAt)
    IN  /\ cy.pc = "await_hist"
        /\ historicalPriceCache' =
               CacheSet(historicalPriceCache, MinuteKey(row.completedAt), price)
        /\ CompleteRow(c, price)
        /\ UNCHANGED <<loadVars, bgVars, earlyVars, histVars, ledgerVars, pageVars, profitHeaders, banner, histCalls,
                       transferVars, started, isProgrammaticNavigation,
                       processingPromise, timers, extScheduled>>
    /\ lastTrigger' = NoTrigger

\* The loop over the rows is over (lines 466-474, 535-541, 719-758): a
\* transfer result is kept; after the Trading table the headers are added,
\* the summary is built and the banner is inserted.
RowsEnd(c) ==
    LET cy == cycles[c]
    IN  /\ cy.pc = "rows"
        /\ cy.idx > Len(Rows(cy.target))
        /\ IF cy.target = "Receiving"
           THEN /\ receiveResult' = cy.events
                /\ cycles' = [cycles EXCEPT ![c].target = "Sending", ![c].pc = "etr",
                                 ![c].idx = 0, ![c].events = << >>]
                /\ UNCHANGED <<checkReceivingSending, sendResult, domVars>>
           ELSE IF cy.target = "Sending"
           THEN /\ sendResult' = cy.events
                /\ checkReceivingSending' = FALSE
                /\ cycles' = [cycles EXCEPT ![c].target = "Trading", ![c].pc = "etr",
                                 ![c].idx = 0, ![c].events = << >>]
                /\ UNCHANGED <<receiveResult, domVars>>
           ELSE /\ profitHeaders' = AppendStyledHeaderCells(profitHeaders, 2)
                /\ banner' = InsertTotalProfitBanner(banner,
                                 BuildSummary(cy.currentPrice, cy.events,
                                              receiveResult, sendResult))
                /\ cycles' = [cycles EXCEPT ![c].pc = "finally",
                                 ![c].outcome = "rendered",
                                 ![c].did = @ \cup {"headers", "ledger", "banner"}]
                /\ UNCHANGED <<profitCells, transferVars>>
        /\ UNCHANGED <<loadVars, bgVars, earlyVars, histVars, ledgerVars, pageVars, cacheVars, started,
                       isProgrammaticNavigation, processingPromise, timers, extScheduled>>
    /\ lastTrigger' = NoTrigger

\* An exception thrown while a table is processed rejects the body; the
\* .catch logs it (line 760).
BodyThrows(c) ==
    /\ cycles[c].pc = "rows"
    /\ cycles' = [cycles EXCEPT ![c].pc = "finally", ![c].outcome = "error"]
    /\ UNCHANGED <<loadVars, bgVars, earlyVars, histVars, ledgerVars, pageVars, domVars, cacheVars, transferVars, started,
                   isProgrammaticNavigation, processingPromise, timers,
                   extScheduled>>
    /\ lastTrigger' = NoTrigger

\* The .finally callback (lines 761-780) up to its wait, or to its end
\* when the original tab is still the active one.
FinallyBegin(c) ==
    LET cy == cycles[c]
    IN  /\ cy.pc = "finally"
        /\ IF cy.originalTab # activeTab
           THEN /\ \E flips \in BOOLEAN : ExtensionClick(cy.originalTab, flips)
                /\ cycles' = [cycles EXCEPT ![c].pc = "wait_restore",
                                 ![c].did = @ \cup {"restore"}]
                /\ UNCHANGED processingPromise
                /\ lastTrigger' = NoTrigger
           ELSE /\ processingPromise' = NULL
                /\ cycles' = [cycles EXCEPT ![c] = IdleCycle]
                /\ lastTrigger' = [NoTrigger EXCEPT
                                      !.settled = PromiseSettles(cy.outcome)]
                /\ UNCHANGED <<activeTab, isProgrammaticNavigation, timers,
                               extScheduled>>
        /\ UNCHANGED <<loadVars, bgVars, earlyVars, histVars, ledgerVars, page, tableLoaded, domVars, cacheVars,
                       transferVars, started>>

\* The wait for the original tab to be selected again ends, by the flip or
\* after 7 s (lines 772-779).
RestoreEnd(c) ==
    /\ cycles[c].pc = "wait_restore"
    /\ isProgrammaticNavigation' = FALSE
    /\ processingPromise' = NULL
    /\ cycles' = [cycles EXCEPT ![c] = IdleCycle]
    /\ UNCHANGED <<loadVars, bgVars, earlyVars, histVars, ledgerVars, pageVars, domVars, cacheVars, transferVars, started,
                   timers, extScheduled>>
    /\ lastTrigger' = [NoTrigger EXCEPT
                          !.settled = PromiseSettles(cycles[c].outcome)]

\* The steps of a cycle that need nothing from outside the content script:
\* they run on its own timers and continuations.
CycleStep(c) ==
    \/ EnsureTabBegin(c)
    \/ WaitSelectEnd(c)
    \/ WaitTableEnd(c)
    \/ RowStep(c)
    \/ RowsEnd(c)
    \/ FinallyBegin(c)
    \/ RestoreEnd(c)

Next ==
    \/ Start
    \/ TimerFire
    \/ \E t \in Tabs : UserClick(t)
    \/ \E t \in Tabs : PageLoadsTable(t)
    \/ \E c \in Slots : \E resp \in PriceResponses : PriceResponse(c, resp)
    \/ \E c \in Slots : \E resp \in HistResponses : HistResponse(c, resp)
    \/ \E c \in Slots : BodyThrows(c)
    \/ \E c \in Slots : CycleStep(c)

Spec == Init /\ [][Next]_vars

(***************************************************************************)
(* SpecExtract: the refresh cycle over pages whose rows cover the cases of *)
(* the extractors (no ratio, no date, zero and negative cells, fees)       *)
(***************************************************************************)
ExtractTradingTables ==
    { <<TradeRow(20000, 2, 60000), TradeRow(0, 1, 90000), TradeRow(0, 1, NoDate)>>,
      <<TradeRow(10000, 0, 60000), TradeRow(10000, -1, 60000)>> }
ExtractReceivingTables == { <<TransferRow(-1, 0, 60000), TransferRow(0, 1, NoDate)>> }
ExtractSendingTables ==
    { <<TransferRow(0, 0, 60000), TransferRow(-2, -1, NoDate)>>,
      <<TransferRow(0, 1, 120000)>> }

ExtractPages ==
    {[Trading |-> t, Receiving |-> r, Sending |-> s] :
        t \in ExtractTradingTables, r \in ExtractReceivingTables,
        s \in ExtractSendingTables}

InitExtract ==
    /\ LedgerIdle
    /\ \E pg \in ExtractPages : OrchIdle(pg)

SpecExtract == InitExtract /\ [][Next]_vars

(***************************************************************************)
(* SpecLedger: buildSummary over bounded inputs                            *)
(***************************************************************************)
MaxEvents == 3

LedgerTimes == {NoDate, 60000}
CurrentPrices == {R(20000), R(50000)}
TradeInputs ==
    {Event("trade", ts, amt, p) : ts \in LedgerTimes, amt \in {1, 2}, p \in {R(10000), R(30000)}}
\* Receive events carry a date of 0 ms (the epoch), which sorts together
\* with a null date, or the later date.
ReceiveTimes == {0, 60000}
ReceiveInputs ==
    {Event("receive", ts, amt, p) :
        ts \in ReceiveTimes, amt \in {0, 1}, p \in {R(0), R(10000)}}
SendInputs ==
    {Event("send", ts, amt, p) :
        ts \in LedgerTimes, amt \in {-1, -2}, p \in {R(0), R(10000)}}

LedgerInit ==
    /\ OrchIdle([Trading |-> << >>, Receiving |-> << >>, Sending |-> << >>])
    /\ lPc = "input"
    /\ \E p \in CurrentPrices : lArgs = [NoLedgerArgs EXCEPT !.currentPrice = p]
    /\ allEvents = << >>
    /\ lIdx = 0
    /\ holdingsBTC = 0
    /\ basisUSD = RZero
    /\ summary = NULL

InputCount ==
    Len(lArgs.tradeEvents) + Len(lArgs.receiveEvents) + Len(lArgs.sendEvents)

\* The caller's event lists: any lists of at most MaxEvents events in all.
LedgerInputTrade ==
    /\ lPc = "input"
    /\ InputCount < MaxEvents
    /\ \E e \in TradeInputs : lArgs' = [lArgs EXCEPT !.tradeEvents = Append(@, e)]
    /\ UNCHANGED <<lPc, allEvents, lIdx, holdingsBTC, basisUSD, summary, orchVars, histVars,
                   loadVars, bgVars, earlyVars>>

LedgerInputReceive ==
    /\ lPc = "input"
    /\ InputCount < MaxEvents
    /\ \E e \in ReceiveInputs : lArgs' = [lArgs EXCEPT !.receiveEvents = Append(@, e)]
    /\ UNCHANGED <<lPc, allEvents, lIdx, holdingsBTC, basisUSD, summary, orchVars, histVars,
                   loadVars, bgVars, earlyVars>>

LedgerInputSend ==
    /\ lPc = "input"
    /\ InputCount < MaxEvents
    /\ \E e \in SendInputs : lArgs' = [lArgs EXCEPT !.sendEvents = Append(@, e)]
    /\ UNCHANGED <<lPc, allEvents, lIdx, holdingsBTC, basisUSD, summary, orchVars, histVars,
                   loadVars, bgVars, earlyVars>>

\* content.js 546-562: filter, sort, and the two accumulators set to 0.
LedgerSort ==
    /\ lPc = "input"
    /\ allEvents' = AllEvents(lArgs.tradeEvents, lArgs.receiveEvents, lArgs.sendEvents)
    /\ lIdx' = 0
    /\ holdingsBTC' = 0
    /\ basisUSD' = RZero
    /\ lPc' = "replay"
    /\ UNCHANGED <<lArgs, summary, orchVars, histVars,
                   loadVars, bgVars, earlyVars>>

\* content.js 564-584: one iteration of allEvents.forEach.
LedgerStep ==
    /\ lPc = "replay"
    /\ lIdx < Len(allEvents)
    /\ LET book == ApplyEvent([h |-> holdingsBTC, b |-> basisUSD], allEvents[lIdx + 1])
       IN  /\ holdingsBTC' = book.h
           /\ basisUSD' = book.b
    /\ lIdx' = lIdx + 1
    /\ UNCHANGED <<lPc, lArgs, allEvents, summary, orchVars, histVars,
                   loadVars, bgVars, earlyVars>>

\* content.js 586-626: the derived figures and the return.
LedgerFinish ==
    /\ lPc = "replay"
    /\ lIdx = Len(allEvents)
    /\ summary' = Summarize(lArgs.currentPrice, [h |-> holdingsBTC, b |-> basisUSD],
                            lArgs.tradeEvents, lArgs.receiveEvents, lArgs.sendEvents)
    /\ lPc' = "done"
    /\ UNCHANGED <<lArgs, allEvents, lIdx, holdingsBTC, basisUSD, orchVars, histVars,
                   loadVars, bgVars, earlyVars>>

LedgerNext ==
    \/ LedgerInputTrade
    \/ LedgerInputReceive
    \/ LedgerInputSend
    \/ LedgerSort
    \/ LedgerStep
    \/ LedgerFinish

SpecLedger == LedgerInit /\ [][LedgerNext]_vars

(***************************************************************************)
(* SpecHist: calls of fetchHistoricalBTCPrice, one after the other, over   *)
(* bounded dates and responses                                             *)
(***************************************************************************)
MaxCandles == 2

\* 30000 falls in minute 0, 60000 and 90000 in minute 1.
HistDates == {NoDate, InvalidDate, 30000, 60000, 90000}

\* Candles at 0 and 120000 ms: equally far from 60000.
HistCandles ==
    {MalformedCandle} \cup
    {Candle(t, open, close) :
        t \in {0, 120000}, open \in {NoPrice, R(19000)},
        close \in {NoPrice, R(20000), R(21000)}}

RECURSIVE CandleSeqs(_)
CandleSeqs(n) ==
    IF n = 0 THEN {<< >>}
    ELSE CandleSeqs(n - 1) \cup
         {Append(d, c) : d \in {x \in CandleSeqs(n - 1) : Len(x) = n - 1},
                         c \in HistCandles}

HistInputs ==
    {CandlesResponse(k, << >>) : k \in {"transport", "status", "parse", "nonarray"}}
    \cup {CandlesResponse("array", d) : d \in CandleSeqs(MaxCandles)}

\* fetchHistoricalBTCPrice(date) up to its return or to the await of
\* fetch(url) (lines 84-102).
HistCall(date) ==
    /\ hPc \in {"idle", "returned"}
    /\ hDate' = date
    /\ hResp' = NoResponse
    /\ IF ~ValidDate(date)
       THEN /\ hOut' = [threw |-> FALSE, price |-> NoPrice]
            /\ hPc' = "returned"
            /\ UNCHANGED cacheVars
       ELSE IF CacheHas(MinuteKey(date))
       THEN /\ hOut' = [threw |-> FALSE,
                        price |-> historicalPriceCache[MinuteKey(date)]]
            /\ hPc' = "returned"
            /\ UNCHANGED cacheVars
       ELSE /\ histCalls' = CountCall(histCalls, MinuteKey(date))
            /\ hOut' = NoOutcome
            /\ hPc' = "await"
            /\ UNCHANGED historicalPriceCache
    /\ UNCHANGED <<loadVars, bgVars, earlyVars, ledgerVars, pageVars, domVars, transferVars, started,
                   isProgrammaticNavigation, processingPromise, timers, cycles,
                   lastTrigger, extScheduled>>

\* fetch(url) settles and the function returns (lines 102-132).
HistSettle(resp) ==
    /\ hPc = "await"
    /\ LET out == CatchFailure(TryFetch(resp, hDate))
       IN  /\ hOut' = out
           /\ historicalPriceCache' =
                 IF out.threw THEN historicalPriceCache
                 ELSE CacheSet(historicalPriceCache, MinuteKey(hDate), out.price)
    /\ hResp' = resp
    /\ hPc' = "returned"
    /\ UNCHANGED <<loadVars, bgVars, earlyVars, ledgerVars, pageVars, domVars, transferVars, started,
                   isProgrammaticNavigation, processingPromise, timers, cycles,
                   lastTrigger, extScheduled, hDate, histCalls>>

HistInit ==
    /\ LedgerIdle
    /\ OrchIdle([Trading |-> << >>, Receiving |-> << >>, Sending |-> << >>])

HistNext ==
    \/ \E date \in HistDates : HistCall(date)
    \/ \E resp \in HistInputs : HistSettle(resp)

SpecHist == HistInit /\ [][HistNext]_vars

(***************************************************************************)
(* SpecLoad: one call of ensureAllRowsLoaded on a panel the page changes   *)
(* as it likes                                                             *)
(***************************************************************************)
MaxRows == 3

\* for (let i = 0; i < 40; i += 1): the hard safety cap.
PassCap == 40

LoadMoreStates == {"absent", "disabled", "enabled"}

\* getRowCount(table)
GetRowCount == panelDom.rows

\* clickLoadMoreIfPresent(panel): TRUE when the button was clicked.
ClickLoadMoreIfPresent == panelDom.loadMore = "enabled"

\* The test of line 313-315: an enabled "load more" button is in the panel.
LoadMorePresent == panelDom.loadMore = "enabled"

\* A loop without the cap.
LoopContinuesForever(i) == TRUE

\* The loop condition i < 40.
LoopContinues(i) == i < PassCap

\* A loop that waits for the button to go, however long the count is stuck.
StuckBreaksNever(after, lastCount, stablePasses) == FALSE

\* if (after === lastCount && stablePasses >= 3) break;
StuckBreaks(after, lastCount, stablePasses) == after = lastCount /\ stablePasses >= 3

\* if (stablePasses >= 2 && !loadMorePresent) break;
StableBreaks(stablePasses, loadMorePresent) == stablePasses >= 2 /\ ~loadMorePresent

LoadFrame ==
    UNCHANGED <<ledgerVars, orchVars, histVars, bgVars, earlyVars>>

\* The page shows the panel, then its table.
PageShowsPanel ==
    /\ loader.pc # "returned"
    /\ ~panelDom.present
    /\ panelDom' = [panelDom EXCEPT !.present = TRUE]
    /\ UNCHANGED loader
    /\ LoadFrame

PageShowsTable ==
    /\ loader.pc # "returned"
    /\ panelDom.present
    /\ ~panelDom.table
    /\ panelDom' = [panelDom EXCEPT !.table = TRUE]
    /\ UNCHANGED loader
    /\ LoadFrame

\* The page adds rows to the table or takes rows out of it.
PageSetsRows(n) ==
    /\ loader.pc # "returned"
    /\ panelDom.table
    /\ n # panelDom.rows
    /\ panelDom' = [panelDom EXCEPT !.rows = n]
    /\ UNCHANGED loader
    /\ LoadFrame

\* The page adds, removes, enables or disables the "load more" button.
PageSetsLoadMore(b) ==
    /\ loader.pc # "returned"
    /\ panelDom.present
    /\ b # panelDom.loadMore
    /\ panelDom' = [panelDom EXCEPT !.loadMore = b]
    /\ UNCHANGED loader
    /\ LoadFrame

\* The call, up to the wait for the table (lines 275-279).
EnsureAllRowsLoaded ==
    /\ loader.pc = "idle"
    /\ loader' = IF ~panelDom.present
                 THEN [loader EXCEPT !.pc = "returned", !.exit = "no_panel"]
                 ELSE [loader EXCEPT !.pc = "wait_table"]
    /\ UNCHANGED panelDom
    /\ LoadFrame

\* waitForCondition for the table ends, with the table or after 2 s
\* without it (lines 279-281).
LoadTableWaitEnd ==
    /\ loader.pc = "wait_table"
    /\ loader' = IF ~panelDom.table
                 THEN [loader EXCEPT !.pc = "returned", !.exit = "no_table"]
                 ELSE [loader EXCEPT !.pc = "wait_row"]
    /\ UNCHANGED panelDom
    /\ LoadFrame

\* The start of a pass (lines 290-298): the count before, the click on
\* "load more", the scroll; then the waits of 150 ms and for a quiet DOM.
PassBegin(l) ==
    [l EXCEPT !.pc = "settle",
              !.before = GetRowCount,
              !.clicked = ClickLoadMoreIfPresent]

\* waitForCondition for the first row ends, with a row or after 2 s
\* without one; the loop starts with i = 0 (lines 281-298).
LoadRowWaitEnd ==
    /\ loader.pc = "wait_row"
    /\ loader' = PassBegin(loader)
    /\ UNCHANGED panelDom
    /\ LoadFrame

\* waitForDomQuiet(panel, 200, 1000) of a pass ends, by the quiet window or
\* after 1 s: the rows are counted again and the loop breaks or goes on to
\* its next pass (lines 298-325, 289-298).
PassEnd ==
    LET after == GetRowCount
        stablePasses == IF after = loader.before THEN loader.stablePasses + 1 ELSE 0
        measured == [loader EXCEPT !.stablePasses = stablePasses,
                                   !.passes = @ + 1]
    IN  /\ loader.pc = "settle"
        /\ loader' =
              IF StableBreaks(stablePasses, LoadMorePresent)
              THEN [measured EXCEPT !.pc = "final_quiet", !.exit = "stable"]
              ELSE IF StuckBreaks(after, loader.lastCount, stablePasses)
              THEN [measured EXCEPT !.pc = "final_quiet", !.exit = "stuck"]
              ELSE LET next == [measured EXCEPT !.lastCount = after, !.i = @ + 1]
                   IN  IF LoopContinues(next.i)
                       THEN PassBegin(next)
                       ELSE [next EXCEPT !.pc = "final_quiet", !.exit = "cap"]
        /\ UNCHANGED panelDom
        /\ LoadFrame

\* The final waitForDomQuiet ends and the function returns (lines 328-329).
LoadFinalQuietEnd ==
    /\ loader.pc = "final_quiet"
    /\ loader' = [loader EXCEPT !.pc = "returned"]
    /\ UNCHANGED panelDom
    /\ LoadFrame

\* The steps of the call: each runs on a timer of the content script.
LoaderStep ==
    \/ EnsureAllRowsLoaded
    \/ LoadTableWaitEnd
    \/ LoadRowWaitEnd
    \/ PassEnd
    \/ LoadFinalQuietEnd

LoadInit ==
    /\ LedgerIdle
    /\ OrchIdle([Trading |-> << >>, Receiving |-> << >>, Sending |-> << >>])

LoadNext ==
    \/ PageShowsPanel
    \/ PageShowsTable
    \/ \E n \in 0..MaxRows : PageSetsRows(n)
    \/ \E b \in LoadMoreStates : PageSetsLoadMore(b)
    \/ LoaderStep

SpecLoad == LoadInit /\ [][LoadNext]_vars

\* The timers of setTimeout and setInterval fire: no wait of the call lasts
\* for ever.
SpecLoadFair == SpecLoad /\ WF_vars(LoaderStep)

(***************************************************************************)
(* SpecBackground: the onMessage listener of the background script and     *)
(* fetchCurrentBTCPrice of the content script, message by message          *)
(***************************************************************************)
MessageTypes == {"GET_BTC_PRICE", "OTHER"}

\* What response.json() yields: it rejects (ok FALSE), or gives a body
\* with or without the path Data["BTC-USD"].PRICE, whose value may be null.
JsonBody(ok, path, price) == [ok |-> ok, path |-> path, PRICE |-> price]

JsonBodies ==
    { JsonBody(FALSE, FALSE, NoPrice),
      JsonBody(TRUE, FALSE, NoPrice),
      JsonBody(TRUE, TRUE, NoPrice),
      JsonBody(TRUE, TRUE, R(50000)) }

\* data?.Data?.["BTC-USD"]?.PRICE ?? null
PriceOfData(body) == IF body.path THEN body.PRICE ELSE NoPrice

\* A listener without try/catch: an error leaves it and nothing is answered.
ListenerCatchNothing(req, threw, price) ==
    IF threw
    THEN [req EXCEPT !.pc = "failed", !.escaped = TRUE]
    ELSE [req EXCEPT !.pc = "answered", !.answers = @ + 1,
                     !.reply = [kind |-> "price", price |-> price]]

\* The end of the listener (lines 30-35): return { price } out of the try
\* block, return { error: true } out of the catch block.
ListenerCatch(req, threw, price) ==
    [req EXCEPT !.pc = "answered",
                !.answers = @ + 1,
                !.reply = IF threw THEN [kind |-> "error", price |-> NoPrice]
                          ELSE [kind |-> "price", price |-> price]]

\* A content script that takes any answer without error flag as a price.
FetchCurrentBTCPriceTrusting(response) ==
    IF response.kind # "price"
    THEN [threw |-> TRUE, price |-> NoPrice]
    ELSE [threw |-> FALSE, price |-> response.price]

\* fetchCurrentBTCPrice once sendMessage has resolved with response:
\* if (!response || response.error || response.price == null) throw.
FetchCurrentBTCPrice(response) ==
    IF response.kind = "none" \/ response.kind = "error" \/ response.price = NoPrice
    THEN [threw |-> TRUE, price |-> NoPrice]
    ELSE [threw |-> FALSE, price |-> response.price]

BgFrame ==
    UNCHANGED <<ledgerVars, orchVars, histVars, loadVars, earlyVars>>

\* A message arrives at the listener (lines 17-23): one of another type is
\* left alone, a price request starts fetch(COINDESK_URL).
BgOnMessage(r, type) ==
    /\ requests[r].pc = "none"
    /\ requests' = [requests EXCEPT
                       ![r].type = type,
                       ![r].pc = IF type # "GET_BTC_PRICE" THEN "ignored" ELSE "fetch"]
    /\ BgFrame

\* fetch settles (line 23): with a response, or rejected.
BgFetchSettles(r, resolves) ==
    /\ requests[r].pc = "fetch"
    /\ requests' = [requests EXCEPT
                       ![r] = IF resolves THEN [@ EXCEPT !.pc = "json"]
                              ELSE ListenerCatch(@, TRUE, NoPrice)]
    /\ BgFrame

\* response.json() settles and the listener returns (lines 24-35).
BgJsonSettles(r, body) ==
    /\ requests[r].pc = "json"
    /\ requests' = [requests EXCEPT
                       ![r] = ListenerCatch(@, ~body.ok, PriceOfData(body))]
    /\ BgFrame

\* sendMessage resolves with nothing: no listener has answered the message.
NoListenerAnswers(r) ==
    /\ requests[r].pc = "none"
    /\ requests' = [requests EXCEPT ![r].type = "GET_BTC_PRICE",
                                    ![r].pc = "unanswered"]
    /\ BgFrame

\* sendMessage of the content script resolves with the answer (lines 73-80).
ContentReceives(r) ==
    /\ requests[r].pc \in {"answered", "unanswered"}
    /\ requests' = [requests EXCEPT
                       ![r].pc = "received",
                       ![r].seen = FetchCurrentBTCPrice(requests[r].reply)]
    /\ BgFrame

BgInit ==
    /\ LedgerIdle
    /\ OrchIdle([Trading |-> << >>, Receiving |-> << >>, Sending |-> << >>])

BgNext ==
    \/ \E r \in 1..MaxRequests : \E type \in MessageTypes : BgOnMessage(r, type)
    \/ \E r \in 1..MaxRequests : \E resolves \in BOOLEAN : BgFetchSettles(r, resolves)
    \/ \E r \in 1..MaxRequests : \E body \in JsonBodies : BgJsonSettles(r, body)
    \/ \E r \in 1..MaxRequests : NoListenerAnswers(r)
    \/ \E r \in 1..MaxRequests : ContentReceives(r)

SpecBackground == BgInit /\ [][BgNext]_vars

(***************************************************************************)
(* SpecEarly: the earlier content script (unnamed/part_000), whose click   *)
(* listener schedules five calls of insertProfitColumns and which has no   *)
(* promise in flight to join                                               *)
(***************************************************************************)
\* for (let i = 0; i < 5; i++) setTimeout(insertProfitColumns, i * 1000)
Attempts == 5

MaxClicks == 1
MaxEarlyRows == 2

\* insertTotalProfitBanner (lines 62-64, 86-110): the elements with the id
\* of the banner after getElementById(...)?.remove() and insertBefore.
EarlyInsertTotalProfitBanner(banners) ==
    (IF banners > 0 THEN banners - 1 ELSE banners) + 1

\* Lines 172-176: three header cells, once per header row.
EarlyAppendStyledHeaderCells(headerRow) ==
    IF headerRow.profitColumnsAdded
    THEN headerRow
    ELSE [profitColumnsAdded |-> TRUE, added |-> headerRow.added + 3]

\* A loop body that does not look at row.dataset.profitInjected.
EarlyInjectRowUnguarded(row) ==
    IF ~row.wide
    THEN row
    ELSE [row EXCEPT !.added = @ + 3, !.profitInjected = TRUE]

\* The body of rows.forEach (lines 179-199): three cells for a row that is
\* not marked and has at least five cells, and the mark.
EarlyInjectRow(row) ==
    IF row.profitInjected
    THEN row
    ELSE IF ~row.wide
    THEN row
    ELSE [row EXCEPT !.added = @ + 3, !.profitInjected = TRUE]

\* TRUE when the attempt gets past 'if (!table || !rows?.length) return'.
EarlyTableHasRows(dom) == dom.table.present /\ dom.table.rows # << >>

\* insertProfitColumns after its price request (lines 165-199), which has
\* no suspension point: the banner, the header cells, the cells of the rows.
EarlyRender(dom) ==
    IF ~EarlyTableHasRows(dom)
    THEN dom
    ELSE [dom EXCEPT
             !.banners = EarlyInsertTotalProfitBanner(@),
             !.table.headerRow = EarlyAppendStyledHeaderCells(@),
             !.table.rows = [i \in DOMAIN @ |-> EarlyInjectRow(@[i])]]

\* insertProfitColumns up to its price request (lines 154-159): one more
\* attempt is suspended when the Trading tab is the active one.
EarlyInsertProfitColumns(run) ==
    IF earlyDom.tab = "Trading"
    THEN [run EXCEPT !.pending = @ + 1,
                     !.peak = IF run.pending + 1 > @ THEN run.pending + 1 ELSE @]
    ELSE run

EarlyFrame ==
    UNCHANGED <<ledgerVars, orchVars, histVars, loadVars, bgVars>>

\* start() (lines 216-220): the first attempt, then the click listener.
EarlyStart ==
    /\ ~earlyRun.started
    /\ earlyRun' = EarlyInsertProfitColumns([earlyRun EXCEPT !.started = TRUE])
    /\ UNCHANGED earlyDom
    /\ EarlyFrame

\* The user clicks a tab; the listener of the Trading tab (lines 207-212)
\* sets its five timers.
EarlyUserClick(t) ==
    LET schedules == t = "Trading" /\ earlyRun.started
    IN  /\ schedules => earlyRun.clicks < MaxClicks
        /\ earlyDom' = [earlyDom EXCEPT !.tab = t]
        /\ earlyRun' = IF schedules
                       THEN [earlyRun EXCEPT !.timers = @ + Attempts,
                                             !.clicks = @ + 1]
                       ELSE earlyRun
        /\ EarlyFrame

\* One of the timers fires.
EarlyTimerFire ==
    /\ earlyRun.timers > 0
    /\ earlyRun' = EarlyInsertProfitColumns([earlyRun EXCEPT !.timers = @ - 1])
    /\ UNCHANGED earlyDom
    /\ EarlyFrame

\* The price request of one suspended attempt settles (lines 157-199): a
\* failure is logged and the attempt returns, a price is rendered.
EarlyPriceResponse(ok) ==
    /\ earlyRun.pending > 0
    /\ earlyRun' = [earlyRun EXCEPT
                       !.pending = @ - 1,
                       !.rendered = IF ok /\ EarlyTableHasRows(earlyDom)
                                    THEN @ + 1 ELSE @]
    /\ earlyDom' = IF ok THEN EarlyRender(earlyDom) ELSE earlyDom
    /\ EarlyFrame

\* The page renders a table, without rows yet.
EarlyPageRendersTable ==
    /\ ~earlyDom.table.present
    /\ earlyDom' = [earlyDom EXCEPT !.table.present = TRUE]
    /\ UNCHANGED earlyRun
    /\ EarlyFrame

\* The page adds a row to its table.
EarlyPageAddsRow(wide) ==
    /\ earlyDom.table.present
    /\ Len(earlyDom.table.rows) < MaxEarlyRows
    /\ earlyDom' = [earlyDom EXCEPT !.table.rows = Append(@, FreshRow(wide))]
    /\ UNCHANGED earlyRun
    /\ EarlyFrame

\* The page takes its table out of the document, with or without the
\* banner beside it.
EarlyPageRemovesTable(keepsBanner) ==
    /\ earlyDom.table.present
    /\ earlyDom' = [earlyDom EXCEPT
                       !.table = NoTable,
                       !.banners = IF keepsBanner THEN @ ELSE 0]
    /\ UNCHANGED earlyRun
    /\ EarlyFrame

EarlyInit ==
    /\ LedgerIdle
    /\ OrchIdle([Trading |-> << >>, Receiving |-> << >>, Sending |-> << >>])

EarlyNext ==
    \/ EarlyStart
    \/ \E t \in Tabs : EarlyUserClick(t)
    \/ EarlyTimerFire
    \/ \E ok \in BOOLEAN : EarlyPriceResponse(ok)
    \/ EarlyPageRendersTable
    \/ \E wide \in BOOLEAN : EarlyPageAddsRow(wide)
    \/ \E keepsBanner \in BOOLEAN : EarlyPageRemovesTable(keepsBanner)

SpecEarly == EarlyInit /\ [][EarlyNext]_vars

(***************************************************************************)
(* Claims about the earlier content script (SpecEarly)                     *)
(***************************************************************************)
\* C39: in the earlier content script, whatever the order in which the
\* overlapping attempts get their prices, a row has the three profit cells
\* at most once, the header row has the three header cells at most once,
\* and at most one banner is in the document.
C39_EarlyInjectsAtMostOnce ==
    /\ earlyDom.banners <= 1
    /\ earlyDom.table.headerRow.added <= 3
    /\ \A i \in DOMAIN earlyDom.table.rows :
          /\ earlyDom.table.rows[i].added <= 3
          /\ earlyDom.table.rows[i].added = 3
                <=> earlyDom.table.rows[i].profitInjected

\* Attempts were suspended together, all are over and several of them
\* rendered: two rows have their three cells, the header has its three,
\* one banner is on the page.
C39_Witness ==
    /\ earlyRun.peak >= 2
    /\ earlyRun.rendered >= 2
    /\ earlyRun.clicks = 1
    /\ earlyRun.timers = 0
    /\ earlyRun.pending = 0
    /\ Len(earlyDom.table.rows) = 2
    /\ \A i \in DOMAIN earlyDom.table.rows : earlyDom.table.rows[i].added = 3
    /\ earlyDom.table.headerRow.added = 3
    /\ earlyDom.banners = 1

C30_WitnessPrice ==
    \E r \in 1..MaxRequests :
        /\ requests[r].pc = "received"
        /\ requests[r].reply = [kind |-> "price", price |-> R(50000)]
        /\ requests[r].seen = [threw |-> FALSE, price |-> R(50000)]

(***************************************************************************)
(* Claims about ensureAllRowsLoaded (SpecLoad, SpecLoadFair)               *)
(***************************************************************************)
\* The loop is left in this step.
LoopLeft == loader.pc = "settle" /\ loader'.pc = "final_quiet"

\* C26 (as stated): the loop is left only after two passes in a row without
\* a change of the row count, no enabled "load more" button being in the
\* panel, or after the 40th pass.
C26_StopsOnlyStableOrCap ==
    [][LoopLeft =>
          \/ loader'.stablePasses >= 2 /\ panelDom.loadMore # "enabled"
          \/ loader'.passes = PassCap
      ]_vars

\* C26 (amended): a pass ends the loop exactly when the row count has not
\* changed in the last two passes and no enabled "load more" button is in
\* the panel, or it has not changed in the last three passes, button or
\* not, or the pass is the 40th; with an enabled button in the panel the
\* loop is not left before the third pass.
C26_StopsStableStuckOrCap ==
    [][(loader.pc = "settle" /\ loader' # loader) =>
          /\ loader'.passes = loader.passes + 1
          /\ loader'.stablePasses =
                IF panelDom.rows = loader.before THEN loader.stablePasses + 1 ELSE 0
          /\ loader'.pc = "final_quiet"
                <=> \/ loader'.stablePasses >= 2 /\ panelDom.loadMore # "enabled"
                    \/ loader'.stablePasses >= 3
                    \/ loader'.passes = PassCap
          /\ (loader'.pc = "final_quiet" /\ panelDom.loadMore = "enabled")
                => loader'.passes >= 3
          /\ loader'.pc = "final_quiet" => loader'.passes >= 2
      ]_vars

\* The loop was left after its third pass: the row count had stayed at 2
\* and the enabled "load more" button is still in the panel.
C26_Witness ==
    /\ loader.pc = "final_quiet"
    /\ loader.passes = 3
    /\ loader.stablePasses = 3
    /\ loader.clicked
    /\ panelDom.loadMore = "enabled"
    /\ panelDom.rows = 2

\* C27: a call of ensureAllRowsLoaded makes at most 40 passes, none of its
\* waits needs the page to end, and it returns, whatever the page does.
C27_AlwaysReturns ==
    /\ [](loader.passes <= PassCap /\ loader.i <= PassCap)
    /\ [](loader.pc \notin {"idle", "returned"} => ENABLED LoaderStep)
    /\ (loader.pc # "idle") ~> (loader.pc = "returned")

\* The call has returned after 40 passes, the row count having changed
\* again and again under a "load more" button that stayed enabled.
C27_Witness ==
    /\ loader.pc = "returned"
    /\ loader.exit = "cap"
    /\ loader.passes = PassCap
    /\ loader.clicked
    /\ panelDom.loadMore = "enabled"

\* The call has returned although no table ever appeared in the panel.
C27_WitnessNoTable ==
    /\ loader.pc = "returned"
    /\ loader.passes = 0
    /\ panelDom.present
    /\ ~panelDom.table

(***************************************************************************)
(* Claims about the ledger (SpecLedger)                                    *)
(***************************************************************************)
InputEvents == lArgs.tradeEvents \o lArgs.receiveEvents \o lArgs.sendEvents

\* Holdings before the j-th replayed event.
HoldingsBefore(j) == Replay(EmptyBook, SubSeq(allEvents, 1, j - 1)).h

\* Some outflow among the first k replayed events exceeded the holdings
\* it was taken from.
OverDisposed(k) ==
    \E j \in 1..k :
        /\ allEvents[j].amountBTC < 0
        /\ -allEvents[j].amountBTC > HoldingsBefore(j)

\* C1 (as stated): holdings and basis are both >= 0 after every replay
\* step and in the returned summary.
C1_HoldingsAndBasisNonNegative ==
    /\ holdingsBTC >= 0
    /\ basisUSD.n >= 0
    /\ lPc = "done" => summary.holdingsBTC >= 0 /\ summary.basisUSD.n >= 0

\* C1 (amended): the basis is >= 0 after every replay step and in the
\* summary; the holdings are >= 0 as long as no outflow replayed so far
\* exceeded the holdings before it.
C1_BasisNonNegative ==
    /\ basisUSD.n >= 0
    /\ ~OverDisposed(lIdx) => holdingsBTC >= 0
    /\ lPc = "done" =>
          /\ summary.basisUSD.n >= 0
          /\ ~OverDisposed(Len(allEvents)) => summary.holdingsBTC >= 0

\* A returned summary of a stream whose send exceeded the inflows:
\* negative holdings, zero basis.
C1_Witness ==
    /\ lPc = "done"
    /\ OverDisposed(Len(allEvents))
    /\ summary.holdingsBTC < 0
    /\ summary.basisUSD = RZero
    /\ Len(lArgs.tradeEvents) > 0

RECURSIVE SumQuantity(_)
SumQuantity(s) ==
    IF s = << >> THEN 0 ELSE Head(s).amountBTC + SumQuantity(Tail(s))

RECURSIVE SumCost(_)
SumCost(s) ==
    IF s = << >> THEN RZero
    ELSE RAdd(RMul(R(Head(s).amountBTC), Head(s).entryPrice), SumCost(Tail(s)))

AllInflows == \A i \in 1..Len(InputEvents) : InputEvents[i].amountBTC > 0

\* C10: a stream of inflows only yields holdings = sum of the quantities
\* and basis = sum of quantity x unitPrice.
C10_AllInflowSums ==
    (lPc = "done" /\ AllInflows) =>
        /\ summary.holdingsBTC = SumQuantity(InputEvents)
        /\ summary.basisUSD = SumCost(InputEvents)

\* Three inflows of two kinds, with different prices and out of time order.
C10_Witness ==
    /\ lPc = "done"
    /\ AllInflows
    /\ Len(lArgs.tradeEvents) = 2
    /\ Len(lArgs.receiveEvents) = 1
    /\ lArgs.tradeEvents[1].entryPrice # lArgs.tradeEvents[2].entryPrice
    /\ lArgs.tradeEvents[1].amountBTC = 2
    /\ lArgs.tradeEvents[1].timestamp = 60000
    /\ lArgs.tradeEvents[2].timestamp = NoDate

\* The replay step about to be taken applies an outflow.
OutflowStep ==
    /\ lPc = "replay"
    /\ lIdx < Len(allEvents)
    /\ allEvents[lIdx + 1].amountBTC < 0
    /\ lIdx' = lIdx + 1

\* C11: an outflow whose magnitude equals the holdings before it leaves
\* holdings exactly 0 and basis exactly 0, whatever the basis was (also a
\* basis of 0 from inflows at unit price 0).
C11_FullDisposalEmptiesBook ==
    [][(OutflowStep /\ -allEvents[lIdx + 1].amountBTC = holdingsBTC)
          => (holdingsBTC' = 0 /\ basisUSD' = RZero)
      ]_vars

\* A receive of 1 at unit price 0 followed by a send of 1 valued at
\* 10000: the disposal met a basis of 0 and left an empty book.
C11_Witness ==
    /\ lPc = "replay"
    /\ lIdx = 2
    /\ allEvents[1].amountBTC = 1
    /\ allEvents[1].entryPrice = RZero
    /\ allEvents[2].amountBTC = -1
    /\ allEvents[2].entryPrice = R(10000)
    /\ holdingsBTC = 0
    /\ basisUSD = RZero

\* The book before the replay step that was taken last.
BookBeforeLast == Replay(EmptyBook, SubSeq(allEvents, 1, lIdx - 1))

\* C33 (as stated): an outflow met with holdings > 0 and basis > 0 reduces
\* the basis by basis x |quantity| / holdings and the holdings by
\* |quantity|, whatever its own unit price; met with holdings <= 0 or
\* basis <= 0 it reduces the holdings by |quantity| and leaves the basis
\* max(0, basis - unitPrice x |quantity|).
C33_OutflowRuleUnfloored ==
    [][OutflowStep =>
          LET e == allEvents[lIdx + 1]
              q == -e.amountBTC
          IN  /\ holdingsBTC' = holdingsBTC - q
              /\ basisUSD' =
                    IF holdingsBTC > 0 /\ RPos(basisUSD)
                    THEN RSub(basisUSD, RDiv(RMul(basisUSD, R(q)), R(holdingsBTC)))
                    ELSE RMax(RZero, RSub(basisUSD, RMul(e.entryPrice, R(q))))
      ]_vars

\* C33 (amended): as stated, with the basis of the first case floored at 0:
\* it is reduced by basis x |quantity| / holdings when |quantity| is at
\* most the holdings, and is 0 when the outflow exceeds the holdings.
C33_OutflowRule ==
    [][OutflowStep =>
          LET e == allEvents[lIdx + 1]
              q == -e.amountBTC
          IN  /\ holdingsBTC' = holdingsBTC - q
              /\ basisUSD' =
                    IF holdingsBTC > 0 /\ RPos(basisUSD)
                    THEN IF q <= holdingsBTC
                         THEN RSub(basisUSD,
                                   RDiv(RMul(basisUSD, R(q)), R(holdingsBTC)))
                         ELSE RZero
                    ELSE RMax(RZero, RSub(basisUSD, RMul(e.entryPrice, R(q))))
      ]_vars

\* The third replayed event was an outflow valued at 10000 that met
\* holdings 0 and a positive basis: the basis went down by 10000 and is
\* still positive, the holdings are negative.
C33_Witness ==
    /\ lPc = "replay"
    /\ lIdx = 3
    /\ allEvents[3].amountBTC < 0
    /\ allEvents[3].entryPrice = R(10000)
    /\ BookBeforeLast.h = 0
    /\ RPos(BookBeforeLast.b)
    /\ holdingsBTC < 0
    /\ RPos(basisUSD)
    /\ basisUSD = RSub(BookBeforeLast.b, RMul(R(10000), R(-allEvents[3].amountBTC)))

\* An outflow exceeded the positive holdings it met, with a positive
\* basis: the basis is 0, not negative.
C33_WitnessOverDisposal ==
    /\ lPc = "replay"
    /\ lIdx >= 2
    /\ allEvents[lIdx].amountBTC < 0
    /\ BookBeforeLast.h > 0
    /\ RPos(BookBeforeLast.b)
    /\ -allEvents[lIdx].amountBTC > BookBeforeLast.h
    /\ basisUSD = RZero

\* C35: the holdings that buildSummary returns are the algebraic sum of
\* the quantities of all input events, in whatever order the lists hold
\* them and the replay takes them, and so are tradesBTC + receivedBTC -
\* sentBTC of the breakdown when the trade and receive events are inflows
\* and the send events are outflows; during the replay the holdings are the
\* sum of the quantities replayed so far.
C35_HoldingsAreSumOfQuantities ==
    /\ lPc = "replay" => holdingsBTC = SumQuantity(SubSeq(allEvents, 1, lIdx))
    /\ lPc = "done" =>
          /\ summary.holdingsBTC = SumQuantity(InputEvents)
          /\ ( /\ \A i \in DOMAIN lArgs.tradeEvents :
                      lArgs.tradeEvents[i].amountBTC >= 0
               /\ \A i \in DOMAIN lArgs.receiveEvents :
                      lArgs.receiveEvents[i].amountBTC >= 0
               /\ \A i \in DOMAIN lArgs.sendEvents :
                      lArgs.sendEvents[i].amountBTC <= 0 )
                => summary.holdingsBTC =
                      summary.breakdown.tradesBTC + summary.breakdown.receivedBTC
                         - summary.breakdown.sentBTC

\* The summary of a send of 2, a receive of 1 and a trade of 2 in which
\* the send was replayed first, from an empty book: the holdings went
\* through -2 and end at 1.
C35_Witness ==
    /\ lPc = "done"
    /\ Len(allEvents) = 3
    /\ allEvents[1].amountBTC = -2
    /\ summary.breakdown.tradesBTC = 2
    /\ summary.breakdown.receivedBTC = 1
    /\ summary.breakdown.sentBTC = 2
    /\ summary.holdingsBTC = 1

\* The list s with the events at positions i and j exchanged.
Exchanged(s, i, j) ==
    [k \in DOMAIN s |-> IF k = i THEN s[j] ELSE IF k = j THEN s[i] ELSE s[k]]

\* The figures of a summary that the replay determines.
Figures(sm) ==
    <<sm.holdingsBTC, sm.basisUSD, sm.currentValue, sm.netProfit, sm.percent>>

\* C36: the holdings, basis, current value, net profit and percent that
\* buildSummary returns are the same when two neighbours change places
\* inside the trade list, the receive list or the send list (and so under
\* every permutation inside the lists, which is a chain of such
\* exchanges), also when events have the same timestamp and quantity and
\* different unit prices.
C36_PermutationInvariant ==
    lPc = "done" =>
        /\ \A i, j \in DOMAIN lArgs.tradeEvents :
              (j = i + 1 /\ lArgs.tradeEvents[i] # lArgs.tradeEvents[j]) =>
              Figures(BuildSummary(lArgs.currentPrice,
                                   Exchanged(lArgs.tradeEvents, i, j),
                                   lArgs.receiveEvents, lArgs.sendEvents))
                 = Figures(summary)
        /\ \A i, j \in DOMAIN lArgs.receiveEvents :
              (j = i + 1 /\ lArgs.receiveEvents[i] # lArgs.receiveEvents[j]) =>
              Figures(BuildSummary(lArgs.currentPrice, lArgs.tradeEvents,
                                   Exchanged(lArgs.receiveEvents, i, j),
                                   lArgs.sendEvents))
                 = Figures(summary)
        /\ \A i, j \in DOMAIN lArgs.sendEvents :
              (j = i + 1 /\ lArgs.sendEvents[i] # lArgs.sendEvents[j]) =>
              Figures(BuildSummary(lArgs.currentPrice, lArgs.tradeEvents,
                                   lArgs.receiveEvents,
                                   Exchanged(lArgs.sendEvents, i, j)))
                 = Figures(summary)

\* The summary of a trade and two sends of the same date and quantity
\* valued at 0 and at 10000: the first send replayed empties the book, the
\* second meets the empty book.
C36_Witness ==
    /\ lPc = "done"
    /\ Len(lArgs.tradeEvents) = 1
    /\ Len(lArgs.sendEvents) = 2
    /\ lArgs.sendEvents[1].timestamp = lArgs.sendEvents[2].timestamp
    /\ lArgs.sendEvents[1].amountBTC = lArgs.sendEvents[2].amountBTC
    /\ lArgs.sendEvents[1].entryPrice # lArgs.sendEvents[2].entryPrice
    /\ lArgs.tradeEvents[1].timestamp = lArgs.sendEvents[1].timestamp
    /\ lArgs.tradeEvents[1].amountBTC = -lArgs.sendEvents[1].amountBTC

\* The summary of two trades of the same date and quantity bought at
\* different prices, and a later send.
C36_WitnessInflows ==
    /\ lPc = "done"
    /\ Len(lArgs.tradeEvents) = 2
    /\ Len(lArgs.sendEvents) = 1
    /\ lArgs.tradeEvents[1].timestamp = lArgs.tradeEvents[2].timestamp
    /\ lArgs.tradeEvents[1].amountBTC = lArgs.tradeEvents[2].amountBTC
    /\ lArgs.tradeEvents[1].entryPrice # lArgs.tradeEvents[2].entryPrice
    /\ summary.holdingsBTC > 0

\* C12: an outflow of half the holdings, met with holdings > 0 and
\* basis > 0, halves holdings and basis and keeps basis / holdings; a
\* trade of 2 at 10000 followed in the replay by a send of 1 returns
\* holdings 1 and basis 10000.
C12_HalfDisposalHalvesBook ==
    /\ [][(/\ OutflowStep
           /\ holdingsBTC > 0
           /\ RPos(basisUSD)
           /\ -2 * allEvents[lIdx + 1].amountBTC = holdingsBTC)
          => /\ 2 * holdingsBTC' = holdingsBTC
             /\ RMul(R(2), basisUSD') = basisUSD
             /\ Rat(basisUSD'.n, basisUSD'.d * holdingsBTC')
                   = Rat(basisUSD.n, basisUSD.d * holdingsBTC)
         ]_vars
    /\ [](( /\ lPc = "done"
            /\ Len(InputEvents) = 2
            /\ Len(allEvents) = 2
            /\ allEvents[1].type = "trade"
            /\ allEvents[1].amountBTC = 2
            /\ allEvents[1].entryPrice = R(10000)
            /\ allEvents[2].amountBTC = -1 )
           => (summary.holdingsBTC = 1 /\ summary.basisUSD = R(10000)))

\* The summary of a trade of 2 at 10000 and a later send of 1 whose own
\* valuation is 0.
C12_Witness ==
    /\ lPc = "done"
    /\ Len(InputEvents) = 2
    /\ InputEvents[1] = Event("trade", NoDate, 2, R(10000))
    /\ InputEvents[2] = Event("send", 60000, -1, RZero)
    /\ summary.holdingsBTC = 1
    /\ summary.basisUSD = R(10000)

\* The replay time of an event: its date, a null date counting as 0.
ReplayTime(e) == IF e.timestamp = NoDate THEN 0 ELSE e.timestamp

CountIn(s, e) == Cardinality({i \in DOMAIN s : s[i] = e})

\* allEvents holds the input events of non-zero quantity, each as often as
\* in the input, by ascending time and, within a time, descending quantity.
ReplayOrdered ==
    /\ \A i \in DOMAIN InputEvents :
          CountIn(allEvents, InputEvents[i])
             = IF InputEvents[i].amountBTC = 0 THEN 0
               ELSE CountIn(InputEvents, InputEvents[i])
    /\ Len(allEvents) = Cardinality({i \in DOMAIN InputEvents :
                                        InputEvents[i].amountBTC # 0})
    /\ \A i, j \in DOMAIN allEvents :
          i < j =>
             /\ ReplayTime(allEvents[i]) <= ReplayTime(allEvents[j])
             /\ ReplayTime(allEvents[i]) = ReplayTime(allEvents[j])
                   => allEvents[i].amountBTC >= allEvents[j].amountBTC

\* The j-th replayed event is an outflow and an inflow of the same
\* magnitude has the same replay time.
PairedOutflow(j) ==
    /\ allEvents[j].amountBTC < 0
    /\ \E i \in DOMAIN allEvents :
          /\ ReplayTime(allEvents[i]) = ReplayTime(allEvents[j])
          /\ allEvents[i].amountBTC = -allEvents[j].amountBTC

\* The first event replayed at the replay time of the j-th.
InstantStart(j) ==
    CHOOSE k \in 1..j :
        /\ ReplayTime(allEvents[k]) = ReplayTime(allEvents[j])
        /\ \A m \in 1..(k - 1) : ReplayTime(allEvents[m]) # ReplayTime(allEvents[j])

\* C13 (as stated): the replay is in ascending time order (null as 0),
\* descending quantity within a time, and an outflow that has an inflow of
\* equal magnitude at its time never meets holdings <= 0.
C13_PairedOutflowSeesHoldings ==
    lPc \in {"replay", "done"} =>
        /\ ReplayOrdered
        /\ \A j \in DOMAIN allEvents : PairedOutflow(j) => HoldingsBefore(j) > 0

\* C13 (amended): the replay is in ascending time order (null as 0),
\* descending quantity within a time, so every inflow of a time is applied
\* before every outflow of that time; an outflow that has an inflow of
\* equal magnitude at its time meets holdings >= its magnitude when the
\* holdings before that time were >= 0 and it is the first outflow of
\* that time.
C13_ReplayOrderInflowsFirst ==
    lPc \in {"replay", "done"} =>
        /\ ReplayOrdered
        /\ \A j \in DOMAIN allEvents :
              ( /\ PairedOutflow(j)
                /\ HoldingsBefore(InstantStart(j)) >= 0
                /\ \A k \in InstantStart(j)..(j - 1) : allEvents[k].amountBTC > 0 )
              => HoldingsBefore(j) >= -allEvents[j].amountBTC

\* A trade dated 60000 listed before a trade without date, and a send of
\* the first trade's magnitude dated 60000: replayed as the undated trade,
\* the dated trade, the send.
C13_Witness ==
    /\ lPc = "replay"
    /\ lIdx = 3
    /\ Len(lArgs.tradeEvents) = 2
    /\ lArgs.tradeEvents[1].timestamp = 60000
    /\ allEvents[1].timestamp = NoDate
    /\ allEvents[2] = lArgs.tradeEvents[1]
    /\ allEvents[3].timestamp = 60000
    /\ allEvents[3].amountBTC = -allEvents[2].amountBTC
    /\ HoldingsBefore(3) > 0

\* C14: the summary has currentValue = holdings x currentPrice,
\* netProfit = currentValue - basis, percent = netProfit / basis x 100 when
\* basis > 0 and 0 otherwise; current price 50000 and the single trade of
\* 1 at 30000 give 50000, 30000, 20000 and a percent of 200/3, which
\* toFixed(2) shows as 66.67.
C14_SummaryFigures ==
    lPc = "done" =>
        /\ summary.holdingsBTC = holdingsBTC
        /\ summary.basisUSD = basisUSD
        /\ summary.currentValue = Rat(holdingsBTC * lArgs.currentPrice.n,
                                      lArgs.currentPrice.d)
        /\ summary.netProfit = RSub(summary.currentValue, basisUSD)
        /\ summary.percent =
              IF RPos(basisUSD)
              THEN Rat(summary.netProfit.n * basisUSD.d * 100,
                       summary.netProfit.d * basisUSD.n)
              ELSE RZero
        /\ ( /\ lArgs.currentPrice = R(50000)
             /\ Len(InputEvents) = 1
             /\ InputEvents[1].type = "trade"
             /\ InputEvents[1].amountBTC = 1
             /\ InputEvents[1].entryPrice = R(30000) )
           => /\ summary.currentValue = R(50000)
              /\ summary.basisUSD = R(30000)
              /\ summary.netProfit = R(20000)
              /\ summary.percent = Rat(200, 3)
              /\ ToFixed2(summary.percent) = 6667

\* The summary of the single trade of 1 at 30000 at current price 50000.
C14_Witness ==
    /\ lPc = "done"
    /\ lArgs.currentPrice = R(50000)
    /\ InputEvents = <<Event("trade", 60000, 1, R(30000))>>
    /\ summary.netProfit = R(20000)
    /\ ToFixed2(summary.percent) = 6667

(***************************************************************************)
(* Claims about fetchHistoricalBTCPrice (SpecHist)                         *)
(***************************************************************************)
\* The well-formed candles of a response, by position.
WellFormedAt(resp) == {i \in DOMAIN resp.data : resp.data[i].wellFormed}

\* The value a candle offers: its close, or its open when the close is
\* absent, or nothing.
CandleValue(c) == IF c.close # NoPrice THEN c.close ELSE c.open

\* The response is a failure of one of the kinds: transport, status,
\* unparseable, not an array, empty, no well-formed candle.
FailedResponse(resp) ==
    \/ resp.kind \in {"transport", "status", "parse", "nonarray"}
    \/ resp.data = << >>
    \/ WellFormedAt(resp) = {}

\* C15: a call that awaited the candles request ends by returning, never
\* by an error; what it returns is in the cache under the minute of its
\* date; for a failed response that is null.
C15_FailureReturnsNull ==
    [][(hPc = "await" /\ hPc' = "returned")
          => /\ ~hOut'.threw
             /\ MinuteKey(hDate) \in DOMAIN historicalPriceCache'
             /\ historicalPriceCache'[MinuteKey(hDate)] = hOut'.price
             /\ FailedResponse(hResp') => hOut'.price = NoPrice
      ]_vars

\* A call whose response body could not be parsed has returned null and
\* null is cached under its minute.
C15_Witness ==
    /\ hPc = "returned"
    /\ hResp.kind = "parse"
    /\ hDate = 90000
    /\ hOut = [threw |-> FALSE, price |-> NoPrice]
    /\ historicalPriceCache[1] = NoPrice

\* C16: a call with a date that is null, not a Date or an invalid Date
\* returns null in the same step, issues no request and leaves the cache
\* as it was.
C16_InvalidDateShortCircuits ==
    [][(hPc # "await" /\ hDate' \in {NoDate, InvalidDate})
          => /\ hPc' = "returned"
             /\ hOut' = [threw |-> FALSE, price |-> NoPrice]
             /\ historicalPriceCache' = historicalPriceCache
             /\ histCalls' = histCalls
      ]_vars

\* A call with an invalid Date has returned null while the cache holds a
\* price and a null of earlier calls, each fetched once.
C16_Witness ==
    /\ hPc = "returned"
    /\ hDate = InvalidDate
    /\ hOut.price = NoPrice
    /\ DOMAIN historicalPriceCache = {0, 1}
    /\ historicalPriceCache[0] = R(20000)
    /\ historicalPriceCache[1] = NoPrice
    /\ histCalls[0] = 1
    /\ histCalls[1] = 1

\* C17: on a cache miss with a response that has well-formed candles the
\* call returns and caches the value (close, else open) of the first
\* candle, in response order, that no well-formed candle is nearer to the
\* date than.
C17_ClosestCandleFirstWins ==
    [][(hPc = "await" /\ hPc' = "returned" /\ ~FailedResponse(hResp'))
          => \E k \in WellFormedAt(hResp') :
                /\ \A j \in WellFormedAt(hResp') :
                      /\ Abs(hResp'.data[k].time - hDate)
                            <= Abs(hResp'.data[j].time - hDate)
                      /\ j < k => Abs(hResp'.data[k].time - hDate)
                                     < Abs(hResp'.data[j].time - hDate)
                /\ hOut'.price = CandleValue(hResp'.data[k])
                /\ historicalPriceCache'[MinuteKey(hDate)]
                      = CandleValue(hResp'.data[k])
      ]_vars

\* Two candles equally far from the date 60000: the first, which has no
\* close, gave its open.
C17_Witness ==
    /\ hPc = "returned"
    /\ hDate = 60000
    /\ hResp.kind = "array"
    /\ Len(hResp.data) = 2
    /\ hResp.data[1] = Candle(0, R(19000), NoPrice)
    /\ hResp.data[2] = Candle(120000, R(19000), R(21000))
    /\ hOut.price = R(19000)
    /\ historicalPriceCache[1] = R(19000)

(***************************************************************************)
(* Claims about the extractors (SpecExtract)                               *)
(***************************************************************************)
\* sold / bought is a finite positive number.
RatioPositive(row) == row.sold * row.bought > 0

\* The step appends an event for the Trading row at cy.idx of cycle c.
TradeRowCompleted(c) ==
    /\ cycles[c].target = "Trading"
    /\ cycles[c].pc \in {"rows", "await_hist"}
    /\ Len(cycles'[c].events) = Len(cycles[c].events) + 1

\* C18: the unit price of a trade event is sold / bought when that is
\* positive, and then no lookup is made for the row; otherwise, with a
\* completion time, the historical price of its minute when that is
\* positive; otherwise 0.
C18_TradePricePriority ==
    [][\A c \in Slots :
          LET row == page.Trading[cycles[c].idx]
              e == cycles'[c].events[Len(cycles'[c].events)]
              key == MinuteKey(row.completedAt)
          IN  /\ TradeRowCompleted(c) =>
                   IF RatioPositive(row)
                   THEN /\ e.entryPrice = Rat(row.sold, row.bought)
                        /\ cycles[c].pc = "rows"
                        /\ histCalls' = histCalls
                   ELSE IF row.completedAt # NoDate
                   THEN /\ key \in DOMAIN historicalPriceCache'
                        /\ e.entryPrice =
                              IF historicalPriceCache'[key] # NoPrice
                                 /\ historicalPriceCache'[key].n > 0
                              THEN historicalPriceCache'[key]
                              ELSE RZero
                   ELSE /\ e.entryPrice = RZero
                        /\ cycles[c].pc = "rows"
                        /\ histCalls' = histCalls
              /\ (cycles'[c].target = "Trading" /\ cycles'[c].pc = "await_hist")
                    => LET r == page.Trading[cycles'[c].idx]
                       IN  ~RatioPositive(r) /\ r.completedAt # NoDate
      ]_vars

\* The three rows of one table gave a ratio price (20000 / 2), a looked-up
\* price (20000) and, without ratio and date, the price 0.
C18_Witness ==
    \E c \in Slots :
        /\ cycles[c].target = "Trading"
        /\ Len(page.Trading) = 3
        /\ Len(cycles[c].events) = 3
        /\ cycles[c].events[1].entryPrice = R(10000)
        /\ cycles[c].events[2].entryPrice = R(20000)
        /\ cycles[c].events[3].entryPrice = RZero
        /\ histCalls[1] = 1

\* C19: a Trading row whose bought quantity is zero or negative yields no
\* event: every trade event of a cycle has quantity > 0.
C19_TradeEventsPositive ==
    \A c \in Slots :
        cycles[c].target = "Trading" =>
            \A i \in DOMAIN cycles[c].events : cycles[c].events[i].amountBTC > 0

\* The banner of a cycle that read a Trading row with bought = -1 shows
\* negative holdings.
C19_Witness ==
    /\ Len(page.Trading) = 2
    /\ page.Trading[2].bought < 0
    /\ banner # << >>
    /\ banner[1].holdingsBTC < 0

\* The quantities of the events the transfer extractor emits for the first
\* n rows of a tab.
RECURSIVE TransferQuantities(_, _)
TransferQuantities(tab, n) ==
    IF n = 0 THEN << >>
    ELSE LET row == page[tab][n]
             amount == IF row.amount < 0 THEN -row.amount ELSE row.amount
             fee == IF row.fee < 0 THEN -row.fee ELSE row.fee
             q == IF tab = "Receiving" THEN amount ELSE -(amount + fee)
         IN  TransferQuantities(tab, n - 1) \o (IF q = 0 THEN << >> ELSE <<q>>)

Quantities(events) == [i \in DOMAIN events |-> events[i].amountBTC]

\* C20: the transfer extractor emits, row by row, one event of quantity
\* +|amount| (receive) or -(|amount| + |fee|) (send) for each row whose net
\* quantity is not zero and none for the others; receive events are > 0,
\* send events < 0.
C20_TransferQuantities ==
    /\ \A c \in Slots :
          (cycles[c].target \in {"Receiving", "Sending"}
              /\ cycles[c].pc \in {"rows", "await_hist"})
          => /\ Quantities(cycles[c].events)
                   = TransferQuantities(cycles[c].target, cycles[c].idx - 1)
             /\ \A i \in DOMAIN cycles[c].events :
                   cycles[c].events[i].type
                      = IF cycles[c].target = "Receiving" THEN "receive" ELSE "send"
    /\ receiveResult # << >> =>
          Quantities(receiveResult) = TransferQuantities("Receiving", Len(page.Receiving))
    /\ sendResult # << >> =>
          Quantities(sendResult) = TransferQuantities("Sending", Len(page.Sending))
    /\ \A i \in DOMAIN receiveResult : receiveResult[i].amountBTC > 0
    /\ \A i \in DOMAIN sendResult : sendResult[i].amountBTC < 0

\* Both transfer tables are extracted: the receive of |-1| is kept and the
\* row of amount 0 dropped; the send row of 0 with fee 0 is dropped and
\* the send of |-2| with fee |-1| is an event of -3.
C20_Witness ==
    /\ Len(page.Sending) = 2
    /\ ~checkReceivingSending
    /\ Quantities(receiveResult) = <<1>>
    /\ Quantities(sendResult) = <<-3>>

\* The step appends an event for the transfer row at cy.idx of cycle c.
TransferRowCompleted(c) ==
    /\ cycles[c].target \in {"Receiving", "Sending"}
    /\ cycles[c].pc \in {"rows", "await_hist"}
    /\ Len(cycles'[c].events) = Len(cycles[c].events) + 1

\* C21: the unit price of a transfer event is the historical price of the
\* minute of its completion time when the lookup gave a positive price;
\* otherwise (no completion time, failed lookup, null in the cache) it is
\* the current price of the cycle that extracts the row.
C21_TransferPriceFallsBackToCurrent ==
    [][\A c \in Slots :
          LET row == page[cycles[c].target][cycles[c].idx]
              e == cycles'[c].events[Len(cycles'[c].events)]
              key == MinuteKey(row.completedAt)
              looked == row.completedAt # NoDate
          IN  TransferRowCompleted(c) =>
                  /\ cycles[c].currentPrice # NoPrice
                  /\ looked => key \in DOMAIN historicalPriceCache'
                  /\ e.entryPrice =
                        IF looked /\ historicalPriceCache'[key] # NoPrice
                                  /\ historicalPriceCache'[key].n > 0
                        THEN historicalPriceCache'[key]
                        ELSE cycles[c].currentPrice
      ]_vars

\* The receive of 60000 ms got the price of its candle (20000); the send
\* without completion time and the send whose lookup failed (null in the
\* cache for bucket 2) got the current price of the cycle (50000).
C21_Witness ==
    /\ ~checkReceivingSending
    /\ Len(receiveResult) = 1
    /\ receiveResult[1].entryPrice = R(20000)
    /\ Len(sendResult) = 1
    /\ sendResult[1].entryPrice = R(50000)
    /\ CacheHas(2)
    /\ historicalPriceCache[2] = NoPrice

\* A receive whose bucket held null in the cache, from a cycle that threw
\* after its lookup, is priced at the current price by the next cycle.
C21_WitnessCachedNull ==
    \E c \in Slots :
        /\ cycles[c].target = "Receiving"
        /\ cycles[c].pc = "rows"
        /\ Len(cycles[c].events) = 1
        /\ cycles[c].events[1].entryPrice = R(50000)
        /\ histCalls[1] = 1
        /\ historicalPriceCache[1] = NoPrice

\* The signed quantity the cells of a row stand for.
QuantityOf(tab, row) ==
    LET amount == IF tab = "Trading" THEN 0
                  ELSE IF row.amount < 0 THEN -row.amount ELSE row.amount
        fee == IF tab = "Trading" THEN 0
               ELSE IF row.fee < 0 THEN -row.fee ELSE row.fee
    IN  IF tab = "Trading" THEN row.bought
        ELSE IF tab = "Receiving" THEN amount
        ELSE -(amount + fee)

\* No positive price is to be had for the row: no positive ratio (trade)
\* and no positive price in the cache for the minute of its completion.
PriceUnresolved(tab, row, cache) ==
    /\ tab = "Trading" => ~RatioPositive(row)
    /\ ~(/\ row.completedAt # NoDate
          /\ MinuteKey(row.completedAt) \in DOMAIN cache
          /\ cache[MinuteKey(row.completedAt)] # NoPrice
          /\ cache[MinuteKey(row.completedAt)].n > 0)

\* Cycle c is done with the row at cy.idx, which stands for a quantity and
\* has no resolvable price.
UnresolvedRowDone(c) ==
    /\ cycles[c].target \in Tabs
    /\ cycles[c].pc \in {"rows", "await_hist"}
    /\ cycles'[c].idx = cycles[c].idx + 1
    /\ QuantityOf(cycles[c].target, page[cycles[c].target][cycles[c].idx]) # 0
    /\ PriceUnresolved(cycles[c].target, page[cycles[c].target][cycles[c].idx],
                       historicalPriceCache')

\* Books a replay may have reached before an event.
SmallBooks == {[h |-> h, b |-> b] : h \in 0..2, b \in {RZero, R(30000)}}

\* C22 (as stated): an event of any kind whose price cannot be resolved is
\* emitted with unit price 0.
C22_UnresolvedPriceIsZero ==
    [][\A c \in Slots :
          UnresolvedRowDone(c) =>
              cycles'[c].events[Len(cycles'[c].events)].entryPrice = RZero
      ]_vars

\* C22 (amended): a row whose price cannot be resolved still yields its
\* event, of the quantity of the row, and the cycle goes on with the next
\* row; the unit price is 0 for a trade, which then adds its quantity to
\* the holdings and nothing to the basis, and the current price of the
\* cycle for a receive or a send.
C22_UnresolvedPriceStillEmitted ==
    [][\A c \in Slots :
          LET cy == cycles[c]
              row == page[cy.target][cy.idx]
              e == cycles'[c].events[Len(cycles'[c].events)]
          IN  UnresolvedRowDone(c) =>
                  /\ cycles'[c].pc = "rows"
                  /\ cycles'[c].outcome = "none"
                  /\ Len(cycles'[c].events) = Len(cy.events) + 1
                  /\ \A i \in DOMAIN cy.events : cycles'[c].events[i] = cy.events[i]
                  /\ e.amountBTC = QuantityOf(cy.target, row)
                  /\ e.timestamp = row.completedAt
                  /\ IF cy.target = "Trading"
                     THEN /\ e.entryPrice = RZero
                          /\ e.amountBTC > 0 =>
                                \A book \in SmallBooks :
                                    ApplyEvent(book, e) =
                                        [h |-> book.h + e.amountBTC, b |-> book.b]
                     ELSE /\ e.entryPrice = cy.currentPrice
                          /\ cy.currentPrice # NoPrice
      ]_vars

\* A rendered cycle whose third trade, without ratio and date, was emitted
\* at price 0 and counted in the banner (2 + 1 + 1), beside a receive whose
\* lookup failed and which was priced at the current price.
C22_Witness ==
    \E c \in Slots :
        /\ cycles[c].outcome = "rendered"
        /\ Len(cycles[c].events) = 3
        /\ cycles[c].events[3].entryPrice = RZero
        /\ cycles[c].events[3].amountBTC = 1
        /\ banner # << >>
        /\ banner[Len(banner)].breakdown.tradesBTC = 4
        /\ Len(receiveResult) = 1
        /\ receiveResult[1].entryPrice = R(50000)
        /\ CacheHas(1)
        /\ historicalPriceCache[1] = NoPrice

\* The injected cells of the Trading table after a cycle went through all
\* its rows: two for a row with a bought quantity, none for the others.
CellsOfOneRun == [i \in 1..Len(page.Trading) |-> IF page.Trading[i].bought # 0 THEN 2 ELSE 0]

\* C29: whatever the number of cycles, the header row has no or two
\* injected cells, a row has no or two injected cells and the page has at
\* most one banner; after a rendered cycle there are exactly two header
\* cells, two cells in each processed row and one banner; and a cycle
\* that renders over the banner of an earlier one leaves the same banner,
\* headers and cells.
C29_RenderingIdempotent ==
    /\ [](/\ profitHeaders \in {0, 2}
          /\ \A i \in DOMAIN profitCells : profitCells[i] \in {0, 2}
          /\ Len(banner) <= 1
          /\ \A c \in Slots :
                cycles[c].outcome = "rendered" =>
                    /\ profitHeaders = 2
                    /\ profitCells = CellsOfOneRun
                    /\ Len(banner) = 1)
    /\ [][\A c \in Slots :
             (cycles[c].outcome = "none" /\ cycles'[c].outcome = "rendered"
                 /\ banner # << >>)
                 => /\ banner' = banner
                    /\ profitHeaders' = profitHeaders
                    /\ profitCells' = CellsOfOneRun
                    /\ profitCells = CellsOfOneRun
         ]_vars

\* A later cycle has gone through the three Trading rows again, over the
\* cells, headers and banner of an earlier cycle, and is about to render.
C29_Witness ==
    \E c \in Slots :
        /\ cycles[c].target = "Trading"
        /\ cycles[c].pc = "rows"
        /\ cycles[c].idx = 4
        /\ "cells" \in cycles[c].did
        /\ banner # << >>
        /\ profitHeaders = 2
        /\ profitCells = <<2, 2, 2>>

(***************************************************************************)
(* Claims about the refresh cycle (Spec)                                   *)
(***************************************************************************)
RunningCycles == {c \in Slots : Running(c)}

\* Cycle c settles the table of its target tab as unavailable in this step.
SettlesUnavailable(c) ==
    /\ cycles[c].pc = "wait_table"
    /\ ~tableLoaded[cycles[c].target]
    /\ cycles'[c] # cycles[c]

\* C23 (as stated): a cycle that finds the table of any category
\* unavailable goes on and renders the summary.
C23_CycleContinuesWithoutAnyCategory ==
    [][\A c \in Slots :
          SettlesUnavailable(c) => cycles'[c].outcome \in {"none", "rendered"}
      ]_vars

\* C23 (amended): an unavailable Receiving or Sending table gives zero
\* events for that category and the cycle goes on with the next tab, the
\* banner of a rendered cycle being the summary of its trades and of the
\* receive and send results as they are; an unavailable Trading table ends
\* the body without ledger, headers or banner.
C23_TransferTableUnavailableIsEmpty ==
    /\ [][\A c \in Slots :
             LET cy == cycles[c]
             IN  SettlesUnavailable(c) =>
                    IF cy.target = "Receiving"
                    THEN /\ receiveResult' = << >>
                         /\ cycles'[c].target = "Sending"
                         /\ cycles'[c].pc = "etr"
                         /\ cycles'[c].outcome = "none"
                    ELSE IF cy.target = "Sending"
                    THEN /\ sendResult' = << >>
                         /\ receiveResult' = receiveResult
                         /\ cycles'[c].target = "Trading"
                         /\ cycles'[c].pc = "etr"
                         /\ cycles'[c].outcome = "none"
                    ELSE /\ cycles'[c].outcome = "no_table"
                         /\ cycles'[c].pc = "finally"
                         /\ cycles'[c].did \cap {"cells", "headers", "ledger", "banner"} = {}
                         /\ UNCHANGED <<domVars, transferVars>>
         ]_vars
    /\ [](\A c \in Slots :
             cycles[c].outcome = "rendered" =>
                 banner = <<BuildSummary(cycles[c].currentPrice, cycles[c].events,
                                         receiveResult, sendResult)>>)

\* A rendered cycle whose Receiving table, of one row, never appeared: no
\* receive event, the send of 2 and the trades are in the banner.
C23_Witness ==
    \E c \in Slots :
        /\ cycles[c].outcome = "rendered"
        /\ page.Receiving # << >>
        /\ ~tableLoaded["Receiving"]
        /\ receiveResult = << >>
        /\ ~checkReceivingSending
        /\ Len(sendResult) = 1
        /\ banner[1].breakdown.receivedBTC = 0
        /\ banner[1].breakdown.sentBTC = 2
        /\ banner[1].breakdown.tradesBTC > 0

\* A cycle that gathered a receive and a send and then found no Trading
\* table: it is in its final step and the page has no banner.
C23_WitnessNoTrading ==
    \E c \in Slots :
        /\ cycles[c].outcome = "no_table"
        /\ cycles[c].target = "Trading"
        /\ receiveResult # << >>
        /\ sendResult # << >>
        /\ banner = << >>

PriceFailedCycle(c) ==
    \/ cycles[c].outcome = "price_failed"
    \/ cycles[c].pc = "await_price" /\ cycles'[c].outcome = "price_failed"

TableMissingOrEmpty(t) == ~tableLoaded[t] \/ page[t] = << >>

\* C28: ensureTabTableReady sets the suppression flag and clicks its tab
\* exactly when the tab is not the selected one and its table is missing
\* or has no rows; otherwise, in particular when the tab is selected and
\* has rows, it issues no click, leaves the flag and the selection as they
\* are and goes on to the waits for the table.
C28_ClicksOnlyUnselectedWithoutRows ==
    [][\A c \in Slots :
          LET cy == cycles[c]
          IN  (cy.pc = "etr" /\ cycles'[c] # cy) =>
                  IF activeTab # cy.target /\ TableMissingOrEmpty(cy.target)
                  THEN /\ ~isProgrammaticNavigation
                       /\ isProgrammaticNavigation'
                       /\ activeTab' \in {activeTab, cy.target}
                       /\ cycles'[c].pc = "wait_select"
                       /\ cycles'[c].did = cy.did \cup {"activate"}
                  ELSE /\ UNCHANGED <<isProgrammaticNavigation, activeTab, timers,
                                      extScheduled>>
                       /\ ~isProgrammaticNavigation
                       /\ cycles'[c].pc = "wait_table"
                       /\ cycles'[c].did = cy.did
      ]_vars

\* A cycle found the Trading tab selected, with its rows, and went on to
\* the waits without a click: it has activated nothing and the flag is
\* not set.
C28_Witness ==
    \E c \in Slots :
        /\ cycles[c].target = "Trading"
        /\ cycles[c].pc = "wait_table"
        /\ cycles[c].did = {}
        /\ activeTab = "Trading"
        /\ tableLoaded["Trading"]
        /\ ~isProgrammaticNavigation
        /\ ~checkReceivingSending

\* The Receiving tab is not selected but its table, with a row, is in the
\* page from an earlier visit of the user: no click.
C28_WitnessUnselectedWithRows ==
    \E c \in Slots :
        /\ cycles[c].target = "Receiving"
        /\ cycles[c].pc = "wait_table"
        /\ cycles[c].did = {}
        /\ activeTab = "Trading"
        /\ tableLoaded["Receiving"]
        /\ page.Receiving # << >>

\* The Sending tab was not selected and had no table: it was clicked.
C28_WitnessClick ==
    \E c \in Slots :
        /\ cycles[c].target = "Sending"
        /\ cycles[c].pc = "wait_select"
        /\ "activate" \in cycles[c].did
        /\ ~tableLoaded["Sending"]
        /\ isProgrammaticNavigation

\* C31: no failure inside a cycle passes the entry point: a body that
\* ended on a price failure, on a missing Trading table or on a thrown
\* error goes to the final step like one that rendered; the promise that
\* insertProfitColumns returned is fulfilled, never rejected, when the
\* cycle ends, and at that moment no cycle runs and processingPromise is
\* null again.
C31_NoFailureEscapes ==
    /\ [][\A c \in Slots :
             /\ (cycles[c].outcome = "none" /\ cycles'[c].outcome # "none")
                   => (Running(c)' /\ processingPromise' = c)
             /\ (Running(c) /\ ~Running(c)')
                   => /\ lastTrigger'.settled =
                            [state |-> "fulfilled", after |-> cycles[c].outcome]
                      /\ RunningCycles' = {}
                      /\ processingPromise' = NULL
         ]_vars
    /\ [](lastTrigger.settled.state \in {"none", "fulfilled"})
    /\ [](lastTrigger.settled.state # "none"
             => (RunningCycles = {} /\ processingPromise = NULL))

\* The promise of a cycle whose body threw while the Trading table was
\* processed, some rows already rendered, has just been fulfilled, and
\* the orchestrator is idle.
C31_Witness ==
    /\ lastTrigger.settled = [state |-> "fulfilled", after |-> "error"]
    /\ RunningCycles = {}
    /\ processingPromise = NULL
    /\ \E i \in DOMAIN profitCells : profitCells[i] > 0
    /\ banner = << >>

\* The cycles that wait for the answer to a historical-price request.
OutstandingLookups == {c \in Slots : cycles[c].pc = "await_hist"}

\* C32: historical-price requests are issued and awaited one at a time: in
\* no state are two of them outstanding, whatever triggers arrived, and a
\* request is only issued in a step before which none was outstanding, for
\* the row the extraction loop stands at.
C32_OneLookupAtATime ==
    /\ [](Cardinality(OutstandingLookups) <= 1)
    /\ [][\A c \in Slots :
             (cycles[c].pc # "await_hist" /\ cycles'[c].pc = "await_hist")
                => /\ OutstandingLookups = {}
                   /\ cycles[c].pc = "rows"
                   /\ cycles'[c].idx = cycles[c].idx
                   /\ cycles'[c].idx \in 1..Len(Rows(cycles[c].target))
         ]_vars

\* A request for a row of the Sending table is outstanding, the answer to
\* an earlier one being cached, and a trigger that has just arrived was
\* handed the promise in flight instead of starting a second extraction.
C32_Witness ==
    \E c \in Slots :
        /\ cycles[c].pc = "await_hist"
        /\ cycles[c].target = "Sending"
        /\ historicalPriceCache # << >>
        /\ lastTrigger.busy = c
        /\ lastTrigger.ret = c

\* C34: a call of insertProfitColumns while another tab than Trading is
\* the active one returns at once with nothing and does nothing: no cycle
\* starts (no price request), no tab is activated, and the caches, the
\* flags, the busy state and the rendered cells, headers and banner are
\* what they were.
C34_TriggerOffTradingIsNoOp ==
    [][lastTrigger'.tab \in Tabs \ {"Trading"} =>
          /\ lastTrigger'.ret = "undefined"
          /\ UNCHANGED <<cycles, processingPromise, isProgrammaticNavigation,
                         checkReceivingSending, activeTab, tableLoaded,
                         historicalPriceCache, histCalls, receiveResult,
                         sendResult, profitCells, profitHeaders, banner,
                         extScheduled>>
      ]_vars

\* A timer has just fired on the Sending tab with no cycle in flight: the
\* call returned nothing and the orchestrator is still idle.
C34_Witness ==
    /\ lastTrigger.tab = "Sending"
    /\ lastTrigger.ret = "undefined"
    /\ lastTrigger.busy = NULL
    /\ started
    /\ RunningCycles = {}
    /\ processingPromise = NULL

\* The cycles that wait for a tab they clicked to become the selected one.
WaitingForSelection ==
    {c \in Slots : cycles[c].pc \in {"wait_select", "wait_restore"}}

\* C37: when no cycle is in flight (processingPromise is null) the
\* suppression flag is false; the flag is true exactly while the cycle in
\* flight waits for a tab it has clicked to become selected: it is set in
\* the step of the click and cleared in the step that ends the wait,
\* whether the selection flipped or the wait timed out.
C37_FlagOnlyDuringBoundedWait ==
    /\ [](processingPromise = NULL => ~isProgrammaticNavigation)
    /\ [](isProgrammaticNavigation <=>
             \E c \in WaitingForSelection : processingPromise = c)
    /\ [][\A c \in Slots :
             /\ (c \notin WaitingForSelection /\ c \in WaitingForSelection')
                   => /\ ~isProgrammaticNavigation
                      /\ isProgrammaticNavigation'
                      /\ cycles[c].pc \in {"etr", "finally"}
                      /\ cycles'[c].did \cap {"activate", "restore"} # {}
             /\ (c \in WaitingForSelection /\ cycles'[c] # cycles[c])
                   => /\ c \notin WaitingForSelection'
                      /\ ~isProgrammaticNavigation'
         ]_vars

\* The wait after the click on the Sending tab has ended without the
\* selection having flipped: the flag is clear again, the cycle goes on.
C37_Witness ==
    \E c \in Slots :
        /\ cycles[c].pc = "wait_table"
        /\ cycles[c].target = "Sending"
        /\ "activate" \in cycles[c].did
        /\ activeTab # "Sending"
        /\ ~tableLoaded["Sending"]
        /\ ~isProgrammaticNavigation
        /\ processingPromise = c

\* C38: with the click listener installed, a click of the user on the
\* Trading tab schedules one call of insertProfitColumns when the
\* suppression flag is clear and none when it is set; no step schedules
\* more than one call, and no step that begins or ends with the flag set
\* (the extension's own click and every click during its bounded wait)
\* schedules any.
C38_ClicksSuppressedWhileFlagSet ==
    [][/\ lastTrigger'.click = "Trading" =>
             timers' = IF started /\ ~isProgrammaticNavigation
                       THEN timers + 1 ELSE timers
       /\ timers' <= timers + 1
       /\ timers' > timers =>
             /\ lastTrigger'.click = "Trading"
             /\ ~isProgrammaticNavigation
             /\ ~isProgrammaticNavigation'
       /\ ~extScheduled'
      ]_vars

\* The user has just clicked the Trading tab while the extension waited
\* for the Sending tab it had clicked: the tab is selected and no call is
\* scheduled.
C38_Witness ==
    \E c \in Slots :
        /\ lastTrigger.click = "Trading"
        /\ isProgrammaticNavigation
        /\ cycles[c].pc = "wait_select"
        /\ cycles[c].target = "Sending"
        /\ started
        /\ activeTab = "Trading"
        /\ timers = 0

\* The user has just clicked the Trading tab with the flag clear, during
\* a cycle: one call is scheduled.
C38_WitnessScheduled ==
    /\ lastTrigger.click = "Trading"
    /\ ~isProgrammaticNavigation
    /\ processingPromise # NULL
    /\ timers = 1

\* C2: at most one refresh cycle executes at any time: no cycle body runs
\* beside the one whose promise is in processingPromise.
C2_AtMostOneCycle ==
    /\ Cardinality(RunningCycles) <= 1
    /\ \A c \in RunningCycles : processingPromise = c

\* A trigger has just arrived while cycle c1 was extracting the Trading
\* table, and was handed the promise in flight.
C2_Witness ==
    /\ Running("c1")
    /\ cycles["c1"].pc = "rows"
    /\ lastTrigger.busy = "c1"
    /\ lastTrigger.ret = "c1"

\* C3 (as stated): every trigger that arrives while a cycle is in flight
\* returns the promise in flight, whichever tab is active.
C3_TriggerAlwaysJoins ==
    lastTrigger.busy # NULL => lastTrigger.ret = lastTrigger.busy

\* C3 (amended): a trigger that arrives while a cycle is in flight starts
\* no cycle; it returns the promise in flight when the Trading tab is the
\* active one, and returns at once with nothing when another tab is.
C3_TriggerJoinsOnTradingTab ==
    lastTrigger.busy # NULL =>
        /\ processingPromise = lastTrigger.busy
        /\ RunningCycles = {lastTrigger.busy}
        /\ lastTrigger.ret =
              IF lastTrigger.tab = "Trading" THEN lastTrigger.busy ELSE "undefined"

\* A trigger has just arrived while the running cycle waited for the
\* Trading tab, which it had activated itself.
C3_Witness ==
    /\ lastTrigger.busy = "c1"
    /\ lastTrigger.ret = "c1"
    /\ cycles["c1"].target = "Trading"
    /\ cycles["c1"].pc = "wait_table"
    /\ "activate" \in cycles["c1"].did

\* C4: whenever the body of a cycle completes (rendered, price failure,
\* no Trading table, thrown error) the final step runs: it clicks the
\* original tab when another tab is active, and only then, at its end,
\* processingPromise is cleared and the cycle is over.
C4_FinalStepRuns ==
    [][\A c \in Slots :
          /\ (cycles[c].outcome = "none" /\ cycles'[c].outcome # "none")
                => cycles'[c].pc = "finally"
          /\ (cycles[c].pc = "finally" /\ cycles'[c] # cycles[c])
                => IF cycles[c].originalTab # activeTab
                   THEN /\ cycles'[c].pc = "wait_restore"
                        /\ "restore" \in cycles'[c].did
                        /\ isProgrammaticNavigation'
                        /\ processingPromise' = processingPromise
                   ELSE /\ ~Running(c)'
                        /\ processingPromise' = NULL
          /\ (Running(c) /\ ~Running(c)')
                => /\ cycles[c].pc \in {"finally", "wait_restore"}
                   /\ processingPromise' = NULL
      ]_vars

\* The final step of a cycle whose body threw: the original tab has been
\* clicked and the busy state is still set until the wait ends.
C4_Witness ==
    \E c \in Slots :
        /\ cycles[c].pc = "wait_restore"
        /\ cycles[c].outcome = "error"
        /\ "restore" \in cycles[c].did
        /\ processingPromise = c

\* C5: every suspension point of a running cycle ends by itself (a timeout
\* or a continuation of the content script), without any answer from
\* outside.
C5_EverySuspensionTimesOut ==
    \A c \in Slots : Running(c) => ENABLED CycleStep(c)

\* A cycle is suspended on a historical-price request that only an answer
\* from outside can end, and holds the busy state meanwhile.
C5_Witness ==
    \E c \in Slots :
        /\ cycles[c].pc = "await_hist"
        /\ processingPromise = c
        /\ ~ENABLED CycleStep(c)

\* C6 (as stated): a cycle whose price fetch failed activates no tab,
\* extracts no table, calls no ledger and adds nothing to the page.
C6_FailedPriceDoesNothing ==
    \A c \in Slots : cycles[c].outcome = "price_failed" => cycles[c].did = {}

\* C6 (amended): a cycle whose price fetch failed extracts no table, calls
\* no ledger, adds nothing to the page and activates no tab in its body;
\* the one click it may issue is the final step's click on the original
\* tab, when the selection changed during the price request.
C6_FailedPriceOnlyRestores ==
    \A c \in Slots :
        cycles[c].outcome = "price_failed" =>
            /\ cycles[c].did \subseteq {"restore"}
            /\ cycles[c].pc \in {"finally", "wait_restore"}
            /\ cycles[c].events = << >>
            /\ cycles[c].currentPrice = NoPrice

\* A cycle whose price fetch failed, in its final step after the click on
\* the original tab.
C6_Witness ==
    \E c \in Slots :
        /\ cycles[c].outcome = "price_failed"
        /\ cycles[c].pc = "wait_restore"
        /\ cycles[c].did = {"restore"}

\* C7: when a cycle whose price fetch failed ends, no banner is on the
\* page: a banner of an earlier cycle has been removed.
C7_FailedCycleRemovesBanner ==
    [][\A c \in Slots :
          (cycles[c].outcome = "price_failed" /\ ~Running(c)')
              => banner' = << >>
      ]_vars

\* The banner of an earlier cycle is on the page while a cycle whose price
\* fetch failed is about to end.
C7_Witness ==
    \E c \in Slots :
        /\ cycles[c].outcome = "price_failed"
        /\ cycles[c].pc = "finally"
        /\ banner # << >>

\* C8: every minute bucket that was looked up, by whatever rows, tables
\* and cycles, has had exactly one fetch, also when that fetch failed
\* (cached as null); a cached bucket is never fetched again.
C8_OneCallPerBucket ==
    /\ \A k \in DOMAIN histCalls : histCalls[k] = 1
    /\ DOMAIN historicalPriceCache \subseteq DOMAIN histCalls
    /\ \A c \in Slots :
          cycles[c].pc = "await_hist" =>
              ~CacheHas(MinuteKey(Rows(cycles[c].target)[cycles[c].idx].completedAt))

\* A later cycle has passed the Trading row of 90000 ms, whose bucket was
\* fetched once, for the Receiving row of 60000 ms, and cached as null.
C8_Witness ==
    /\ Len(page.Trading) = 2
    /\ receiveResult # << >>
    /\ ~checkReceivingSending
    /\ banner # << >>
    /\ CacheHas(1)
    /\ historicalPriceCache[1] = NoPrice
    /\ histCalls[1] = 1
    /\ \E c \in Slots :
          /\ cycles[c].target = "Trading"
          /\ cycles[c].idx = 2
          /\ cycles[c].events[1].entryPrice = RZero

\* C9: the step in which the extension sets the suppression flag and
\* clicks a tab schedules no refresh.
C9_OwnClickSchedulesNothing ==
    [][(~isProgrammaticNavigation /\ isProgrammaticNavigation')
          => (timers' = timers /\ ~extScheduled')
      ]_vars

\* The extension has clicked the Trading tab, with the click listener
\* installed, to restore it at the end of a cycle.
C9_Witness ==
    \E c \in Slots :
        /\ cycles[c].pc = "wait_restore"
        /\ cycles[c].originalTab = "Trading"
        /\ activeTab = "Trading"
        /\ isProgrammaticNavigation
        /\ started
        /\ timers = 0

====
